---- MODULE Spec2Model ----
(***************************************************************************)
(* Model of the price pipeline of amazon_price_core.py                     *)
(* (AmazonPriceScraper.get_product_data and its helpers) and of the worker *)
(* of amazon_price_gui.py (App.start_process, App.run_in_thread).          *)
(* Spec follows one row through get_product_data and the row writer;       *)
(* SpecRuns follows the runs over a whole sheet.                           *)
(*                                                                         *)
(* Python values are modelled as tagged records so that an int, a str and  *)
(* None can sit in the same field:  I(n) an int, S(t) a str, None.         *)
(* A str is a sequence of characters.  The module is plain ASCII, so each  *)
(* Japanese character of the source is written by its reading:            *)
(*   "shin","pin"          new         (U+65B0 U+54C1)                     *)
(*   "chuu","ko"           used        (U+4E2D U+53E4)                     *)
(*   "zai","ko","a","ri"   in stock    (U+5728 U+5EAB U+3042 U+308A)       *)
(*   "noko","ri" N "ten"   N remaining (U+6B8B U+308A ... U+70B9)          *)
(*   "mu","ryou"           free        (U+7121 U+6599)                     *)
(*   "e","ra","-"          error       (U+30A8 U+30E9 U+30FC)              *)
(*   "yen"                 the currency sign (U+FFE5)                      *)
(***************************************************************************)
EXTENDS Integers, Sequences, FiniteSets, TLC

VARIABLES
    driver,        \* self.driver: "none", then "open", "closed" once quit
    pc,            \* position of the worker in get_product_data / the row writer
    lower, upper,  \* lower_multiplier, upper_multiplier, in hundredths
    page_source,   \* the secondary page as rendered when it was parsed
    filter,        \* outcome of the New-filter attempt: "none", "applied", "failed"
    fault,         \* the exception get_product_data caught: "none" or its kind
    buybox_data,   \* result of _parse_main_page_buybox
    side_offers,   \* result of _get_filtered_side_panel_offers
    unique_offers, \* the deduplicated offer list of the last Success
    price_group,   \* the eligible set of the last Success
    data,          \* the dict returned by get_product_data
    row,           \* the output cells of the current sheet row
    run_button,    \* state of the run button: "normal" or "disabled"
    sheet,         \* the rows of the sheet from start_row on
    threads,       \* the worker threads: position, session and loop locals
    main_soup,     \* the primary page handed to _parse_main_page_buybox
    fetch          \* the locals of the HTTP retry loop of the requests scrapers

\* the variables of one row's resolution
row_vars == <<driver, pc, lower, upper, page_source, filter, fault, buybox_data,
              side_offers, unique_offers, price_group, data, row>>

\* the variables of the runs over the sheet
runs_vars == <<run_button, sheet, threads>>

\* the variables of the parsers taken alone and of the requests scrapers
scrape_vars == <<main_soup, fetch>>

vars == <<row_vars, runs_vars, scrape_vars>>

-----------------------------------------------------------------------------
(* Python values *)

I(n) == [k |-> "int", n |-> n, s |-> <<>>]
S(t) == [k |-> "str", n |-> 0, s |-> t]
None == [k |-> "none", n |-> 0, s |-> <<>>]
\* a list
L(q) == [k |-> "list", n |-> 0, s |-> q]

IsInt(v) == v.k = "int"

\* 'N/A'
NA == S(<<"N", "/", "A">>)
\* the error text of _get_error_result and of the error row
ERR == S(<<"e", "ra", "-">>)
\* '' : an empty cell
EMPTY == S(<<>>)

-----------------------------------------------------------------------------
(* Text primitives *)

Digits == {"0", "1", "2", "3", "4", "5", "6", "7", "8", "9"}

DigitVal(c) ==
    CASE c = "0" -> 0 [] c = "1" -> 1 [] c = "2" -> 2 [] c = "3" -> 3
      [] c = "4" -> 4 [] c = "5" -> 5 [] c = "6" -> 6 [] c = "7" -> 7
      [] c = "8" -> 8 [] c = "9" -> 9

\* int() of a non-empty string of digits
RECURSIVE ParseInt(_)
ParseInt(t) ==
    IF t = <<>> THEN 0
    ELSE 10 * ParseInt(SubSeq(t, 1, Len(t) - 1)) + DigitVal(t[Len(t)])

\* sub in text
Contains(sub, text) ==
    \E i \in 1..(Len(text) - Len(sub) + 1) : SubSeq(text, i, i + Len(sub) - 1) = sub

OnlyDigits(t) == SelectSeq(t, LAMBDA c : c \in Digits)

\* 'Amazon', the platform-fulfilment marker looked for in a shipper text
AmazonMarker == <<"A", "m", "a", "z", "o", "n">>
\* the Used marker looked for in a condition text
UsedMarker == <<"chuu", "ko">>
\* the condition text given to a buy-box with a parsed price
NewText == <<"shin", "pin">>
\* the in-stock phrase of the availability text
InStockMarker == <<"zai", "ko", "a", "ri">>
\* the free-shipping keyword
FreeMarker == <<"mu", "ryou">>

-----------------------------------------------------------------------------
(* _clean_price: the last run of [0-9,] characters, commas removed *)

PriceChars == Digits \cup {","}

RemoveCommas(t) == SelectSeq(t, LAMBDA c : c # ",")

\* numbers[-1] of re.findall(r'[\d,]+', t), or <<>> when there is no match
LastRun(t) ==
    LET ends == {j \in 1..Len(t) : t[j] \in PriceChars}
    IN  IF ends = {} THEN <<>>
        ELSE LET j == CHOOSE x \in ends : \A y \in ends : y <= x
                 i == CHOOSE x \in 1..j :
                        /\ \A m \in x..j : t[m] \in PriceChars
                        /\ \A y \in 1..j :
                              (\A m \in y..j : t[m] \in PriceChars) => x <= y
             IN  SubSeq(t, i, j)

_clean_price(price_text) ==
    IF price_text = None \/ price_text.s = <<>> THEN None
    ELSE LET price_digits == RemoveCommas(LastRun(price_text.s))
         IN  IF price_digits = <<>> THEN None ELSE I(ParseInt(price_digits))

(* _clean_shipping_fee *)
_clean_shipping_fee(shipping_text) ==
    IF shipping_text = None \/ shipping_text.s = <<>> THEN 0
    ELSE IF Contains(FreeMarker, shipping_text.s) THEN 0
    ELSE LET fee_digits == OnlyDigits(shipping_text.s)
         IN  IF fee_digits = <<>> THEN 0 ELSE ParseInt(fee_digits)

-----------------------------------------------------------------------------
(* _parse_main_page_buybox.  A primary page is a record of its four nodes, *)
(* each None (node absent) or S(text).                                     *)

\* the end of the maximal run of digits of t that starts at i (i - 1 when empty)
DigitRunEnd(t, i) ==
    CHOOSE e \in (i - 1)..Len(t) :
        /\ \A m \in i..e : t[m] \in Digits
        /\ (e < Len(t) => t[e + 1] \notin Digits)

\* re.search(r'noko ri (\d+) ten', t) matches at position i
RemainingAt(t, i) ==
    /\ i + 1 <= Len(t)
    /\ t[i] = "noko" /\ t[i + 1] = "ri"
    /\ LET e == DigitRunEnd(t, i + 2)
       IN  e >= i + 2 /\ e < Len(t) /\ t[e + 1] = "ten"

\* a reading of the availability text that looks for the remaining phrase
\* before the in-stock phrase
StockOfRemainingFirst(t) ==
    LET hits == {i \in 1..Len(t) : RemainingAt(t, i)}
    IN  IF hits # {}
        THEN LET i == CHOOSE x \in hits : \A y \in hits : x <= y
             IN  ParseInt(SubSeq(t, i + 2, DigitRunEnd(t, i + 2)))
        ELSE IF Contains(InStockMarker, t) THEN 30 ELSE 0

\* data['real_stock'] for an availability text
StockOf(t) ==
    IF Contains(InStockMarker, t) THEN 30
    ELSE LET hits == {i \in 1..Len(t) : RemainingAt(t, i)}
         IN  IF hits = {} THEN 0
             ELSE LET i == CHOOSE x \in hits : \A y \in hits : x <= y
                  IN  ParseInt(SubSeq(t, i + 2, DigitRunEnd(t, i + 2)))

_parse_main_page_buybox(soup) ==
    LET price == IF soup.price # None THEN _clean_price(soup.price) ELSE NA
    IN  [ price        |-> price,
          seller       |-> IF soup.seller # None THEN soup.seller ELSE NA,
          shipper      |-> IF soup.shipper # None THEN soup.shipper ELSE NA,
          real_stock   |-> I(IF soup.availability # None
                               THEN StockOf(soup.availability.s) ELSE 0),
          shipping_fee |-> I(0),
          condition    |-> IF soup.price # None /\ IsInt(price)
                             THEN S(NewText) ELSE NA ]

-----------------------------------------------------------------------------
(* _parse_side_panel_offers.  A secondary page is the sequence of its      *)
(* #aod-offer entries, each a record of six nodes, None or S(text).        *)

\* ' '.join(text.split())
RECURSIVE NormFrom(_, _)
NormFrom(t, i) ==
    IF i > Len(t) THEN <<>>
    ELSE (IF \/ t[i] # " "
             \/ /\ i > 1 /\ t[i - 1] # " "
                /\ \E j \in (i + 1)..Len(t) : t[j] # " "
          THEN <<t[i]>> ELSE <<>>) \o NormFrom(t, i + 1)

NormalizeSpace(t) == NormFrom(t, 1)

\* ParseEntry without the Used check: every entry with a heading and a price
\* becomes an offer
ParseEntryKeepsUsed(offer_el) ==
    IF offer_el.heading = None \/ _clean_price(offer_el.price) = None THEN <<>>
    ELSE << [ price        |-> _clean_price(offer_el.price),
              shipping_fee |-> I(0),
              seller       |-> IF offer_el.seller # None THEN offer_el.seller ELSE NA,
              shipper      |-> IF offer_el.shipper # None THEN offer_el.shipper ELSE NA,
              condition    |-> S(NormalizeSpace(offer_el.heading.s)) ] >>

\* the offers one entry contributes: none when it is skipped
ParseEntry(offer_el) ==
    IF offer_el.heading = None THEN <<>>
    ELSE LET condition_text == NormalizeSpace(offer_el.heading.s)
             price == _clean_price(offer_el.price)
             shipping_fee ==
                 IF offer_el.delivery_attr # None
                 THEN _clean_shipping_fee(offer_el.delivery_attr)
                 ELSE IF offer_el.ship_span # None
                 THEN _clean_shipping_fee(offer_el.ship_span)
                 ELSE 0
         IN  IF Contains(UsedMarker, condition_text) THEN <<>>
             ELSE IF price = None THEN <<>>
             ELSE << [ price        |-> price,
                       shipping_fee |-> I(shipping_fee),
                       seller       |-> IF offer_el.seller # None
                                          THEN offer_el.seller ELSE NA,
                       shipper      |-> IF offer_el.shipper # None
                                          THEN offer_el.shipper ELSE NA,
                       condition    |-> S(condition_text) ] >>

RECURSIVE _parse_side_panel_offers(_)
_parse_side_panel_offers(soup) ==
    IF soup = <<>> THEN <<>>
    ELSE ParseEntry(Head(soup)) \o _parse_side_panel_offers(Tail(soup))

-----------------------------------------------------------------------------
(* get_product_data, steps 3 to 5: merge, deduplicate, classify, select *)

\* price + shipping_fee of an offer whose price is an int
Total(x) == x.price.n + x.shipping_fee.n

\* a dedup key that leaves the shipper out
IdentifierNoShipper(offer) == <<offer.price, offer.seller, offer.seller>>

\* the dedup key (price, seller, shipper)
Identifier(offer) == <<offer.price, offer.seller, offer.shipper>>

\* all_offers without the buy-box
AllOffersPanelOnly(bb, side) == side

\* all_offers: the buy-box first, when its price is an int, then the panel offers
AllOffers(bb, side) == (IF IsInt(bb.price) THEN <<bb>> ELSE <<>>) \o side

\* a deduplication that keeps the last offer of each key
RECURSIVE DedupFromKeepsLast(_, _)
DedupFromKeepsLast(offers, seen) ==
    IF offers = <<>> THEN <<>>
    ELSE LET offer == Head(offers)
             later == {Identifier(Tail(offers)[i]) : i \in 1..(Len(offers) - 1)}
         IN  IF Identifier(offer) \in later
             THEN DedupFromKeepsLast(Tail(offers), seen)
             ELSE <<offer>> \o DedupFromKeepsLast(Tail(offers), seen)

RECURSIVE DedupFrom(_, _)
DedupFrom(offers, seen) ==
    IF offers = <<>> THEN <<>>
    ELSE LET offer == Head(offers)
             identifier == Identifier(offer)
         IN  IF identifier \in seen THEN DedupFrom(Tail(offers), seen)
             ELSE <<offer>> \o DedupFrom(Tail(offers), seen \cup {identifier})

\* a pass that drops only the first offer whose key was seen before
DedupFirstRepeat(offers) ==
    LET repeats == {i \in 1..Len(offers) :
                       \E j \in 1..(i - 1) :
                           Identifier(offers[j]) = Identifier(offers[i])}
    IN  IF repeats = {} THEN offers
        ELSE LET i == CHOOSE x \in repeats : \A y \in repeats : x <= y
             IN  SubSeq(offers, 1, i - 1) \o SubSeq(offers, i + 1, Len(offers))

\* unique_offers
Dedup(offers) == DedupFrom(offers, {})

\* 'Amazon' in offer.get('shipper', '')
IsFBA(offer) == Contains(AmazonMarker, offer.shipper.s)

FbaCount(offers) == Len(SelectSeq(offers, IsFBA))

\* a sort whose order of equal totals is not fixed by its input: first-seen
\* order at the moment get_product_data sorts, the reverse at any other moment
InsertByTotalUnstable(x, sorted) ==
    LET k == Cardinality({i \in 1..Len(sorted) :
                 \/ Total(sorted[i]) < Total(x)
                 \/ Total(sorted[i]) = Total(x) /\ pc = "select"})
    IN  SubSeq(sorted, 1, k) \o <<x>> \o SubSeq(sorted, k + 1, Len(sorted))

\* sorted(..., key = total): Python's sort is stable
InsertByTotal(x, sorted) ==
    LET k == Cardinality({i \in 1..Len(sorted) : Total(sorted[i]) <= Total(x)})
    IN  SubSeq(sorted, 1, k) \o <<x>> \o SubSeq(sorted, k + 1, Len(sorted))

RECURSIVE SortByTotal(_)
SortByTotal(offers) ==
    IF offers = <<>> THEN <<>>
    ELSE InsertByTotal(offers[Len(offers)],
                       SortByTotal(SubSeq(offers, 1, Len(offers) - 1)))

\* The multipliers are IEEE doubles.  base * multiplier differs from the exact
\* product by far less than 1/100, so it compares with an int total as the
\* exact product does unless the exact product is that int; then the rounding
\* of the double product decides.  FloatErr is the sign of
\* (double product - exact product) for the multipliers of Multipliers and
\* every base up to 300: only base * 1.15 rounds, downwards
\* (100 * 1.15 = 114.99999999999999).
FloatErr(base, pct) ==
    IF pct = 115 /\ base \in {100, 180, 200, 220} THEN -1 ELSE 0

\* a band that leaves its upper bound out
InBandUpperOpen(total, base, lo, up) ==
    /\ \/ base * lo < total * 100
       \/ base * lo = total * 100 /\ FloatErr(base, lo) <= 0
    /\ total * 100 < base * up

\* price_lower_bound <= offer_total_price <= price_upper_bound
InBand(total, base, lo, up) ==
    /\ \/ base * lo < total * 100
       \/ base * lo = total * 100 /\ FloatErr(base, lo) <= 0
    /\ \/ total * 100 < base * up
       \/ total * 100 = base * up /\ FloatErr(base, up) >= 0

\* the upper of the two middle elements for even n
MedianIndexUpper(n) == (n \div 2) + 1

\* n // 2 for odd n, n // 2 - 1 for even n (0-based), as a 1-based index
MedianIndex(n) == IF n % 2 = 1 THEN (n \div 2) + 1 ELSE n \div 2

\* the buy-box-trust condition with a higher stock threshold
BuyboxTrustedStrict(bb) ==
    /\ bb.real_stock.n > 5
    /\ IsInt(bb.price)
    /\ Contains(AmazonMarker, bb.shipper.s)

\* is_buybox_fba and the buy-box-trust condition
BuyboxTrusted(bb) ==
    /\ bb.real_stock.n > 2
    /\ IsInt(bb.price)
    /\ Contains(AmazonMarker, bb.shipper.s)

\* the outcome of step 4 when no optimal price is resolved
Unresolved(group, count) ==
    [ optimal_price           |-> NA,
      optimal_price_condition |-> NA,
      optimal_price_shipper   |-> NA,
      optimal_price_seller    |-> NA,
      price_group             |-> group,
      effective_sellers_count |-> count ]

\* a trust branch that counts the sellers other than the buy-box
TrustBranchCountsOthers(bb, unique) ==
    [ optimal_price           |-> I(bb.price.n + bb.shipping_fee.n),
      optimal_price_condition |-> bb.condition,
      optimal_price_shipper   |-> bb.shipper,
      optimal_price_seller    |-> bb.seller,
      price_group             |-> unique,
      effective_sellers_count |-> Len(unique) - 1 ]

\* the buy-box is trusted: its total is the optimal price, every offer is eligible
TrustBranch(bb, unique) ==
    [ optimal_price           |-> I(bb.price.n + bb.shipping_fee.n),
      optimal_price_condition |-> bb.condition,
      optimal_price_shipper   |-> bb.shipper,
      optimal_price_seller    |-> bb.seller,
      price_group             |-> unique,
      effective_sellers_count |-> Len(unique) ]

\* a band branch that falls back to every offer when the band holds fewer than 3
BandBranchFallsBack(sorted_for_grouping, lo, up) ==
    LET base_price == Total(sorted_for_grouping[3])
        group == SelectSeq(sorted_for_grouping,
                           LAMBDA o : InBand(Total(o), base_price, lo, up))
        sorted_price_group == SortByTotal(group)
        median_offer == sorted_price_group[MedianIndex(Len(sorted_price_group))]
    IN  IF Len(group) >= 3
        THEN [ optimal_price           |-> I(Total(median_offer)),
               optimal_price_condition |-> median_offer.condition,
               optimal_price_shipper   |-> median_offer.shipper,
               optimal_price_seller    |-> median_offer.seller,
               price_group             |-> group,
               effective_sellers_count |-> Len(group) ]
        ELSE Unresolved(sorted_for_grouping, Len(sorted_for_grouping))

\* a band branch whose reference is the cheapest offer
BandBranchAroundCheapest(sorted_for_grouping, lo, up) ==
    LET base_price == Total(sorted_for_grouping[1])
        group == SelectSeq(sorted_for_grouping,
                           LAMBDA o : InBand(Total(o), base_price, lo, up))
        sorted_price_group == SortByTotal(group)
        median_offer == sorted_price_group[MedianIndex(Len(sorted_price_group))]
    IN  IF Len(group) >= 3
        THEN [ optimal_price           |-> I(Total(median_offer)),
               optimal_price_condition |-> median_offer.condition,
               optimal_price_shipper   |-> median_offer.shipper,
               optimal_price_seller    |-> median_offer.seller,
               price_group             |-> group,
               effective_sellers_count |-> Len(group) ]
        ELSE Unresolved(group, Len(group))

\* at least 3 offers: the band around the third cheapest, then its median
BandBranch(sorted_for_grouping, lo, up) ==
    LET base_price == Total(sorted_for_grouping[3])
        group == SelectSeq(sorted_for_grouping,
                           LAMBDA o : InBand(Total(o), base_price, lo, up))
        sorted_price_group == SortByTotal(group)
        median_offer == sorted_price_group[MedianIndex(Len(sorted_price_group))]
    IN  IF Len(group) >= 3
        THEN [ optimal_price           |-> I(Total(median_offer)),
               optimal_price_condition |-> median_offer.condition,
               optimal_price_shipper   |-> median_offer.shipper,
               optimal_price_seller    |-> median_offer.seller,
               price_group             |-> group,
               effective_sellers_count |-> Len(group) ]
        ELSE Unresolved(group, Len(group))

\* the sparse branch leaving effective_sellers_count at its initial 0
SparseBranchNoCount(sorted_for_grouping) == Unresolved(sorted_for_grouping, 0)

\* fewer than 3 offers: no band, no optimal price
SparseBranch(sorted_for_grouping) ==
    Unresolved(sorted_for_grouping, Len(sorted_for_grouping))

\* step 4: the optimal price, its companions, the eligible set and its size
Select(bb, unique, lo, up) ==
    IF BuyboxTrusted(bb) THEN TrustBranch(bb, unique)
    ELSE LET sorted_for_grouping == SortByTotal(unique)
         IN  IF Len(sorted_for_grouping) >= 3
             THEN BandBranch(sorted_for_grouping, lo, up)
             ELSE SparseBranch(sorted_for_grouping)

\* a display list that keeps the buy-box entry
DisplayOffersKeepsBuybox(bb, group) == SortByTotal(group)

\* step 5: the eligible set without the buy-box key, sorted by total
DisplayOffers(bb, group) ==
    SortByTotal(SelectSeq(group, LAMBDA o : Identifier(o) # Identifier(bb)))

\* the dict get_product_data returns on success
SuccessResult(bb, side, lo, up) ==
    LET unique == Dedup(AllOffers(bb, side))
        total_offers_count == Len(unique)
        fba_count == FbaCount(unique)
        fbm_count == total_offers_count - fba_count
        sel == Select(bb, unique, lo, up)
    IN  [ status                  |-> "success",
          real_stock              |-> bb.real_stock,
          total_offers            |-> I(total_offers_count),
          fba_count               |-> I(fba_count),
          fbm_count               |-> I(fbm_count),
          inventory_score         |-> I((fba_count * 2) + fbm_count),
          effective_sellers_count |-> I(sel.effective_sellers_count),
          buybox_info             |-> bb,
          offers                  |-> DisplayOffers(bb, sel.price_group),
          optimal_price           |-> sel.optimal_price,
          optimal_price_condition |-> sel.optimal_price_condition,
          optimal_price_shipper   |-> sel.optimal_price_shipper,
          optimal_price_seller    |-> sel.optimal_price_seller ]

\* an error result that keeps the buy-box already extracted
PartialErrorResult ==
    [ status                  |-> "error",
      real_stock              |-> buybox_data.real_stock,
      total_offers            |-> ERR,
      fba_count               |-> ERR,
      fbm_count               |-> ERR,
      inventory_score         |-> ERR,
      buybox_info             |-> buybox_data,
      offers                  |-> <<>>,
      optimal_price           |-> ERR,
      optimal_price_condition |-> ERR,
      optimal_price_shipper   |-> ERR,
      optimal_price_seller    |-> ERR,
      effective_sellers_count |-> ERR ]

_get_error_result ==
    [ status                  |-> "error",
      real_stock              |-> ERR,
      total_offers            |-> ERR,
      fba_count               |-> ERR,
      fbm_count               |-> ERR,
      inventory_score         |-> ERR,
      buybox_info             |-> [ price |-> ERR, seller |-> ERR, shipper |-> ERR,
                                    real_stock |-> ERR, condition |-> ERR ],
      offers                  |-> <<>>,
      optimal_price           |-> ERR,
      optimal_price_condition |-> ERR,
      optimal_price_shipper   |-> ERR,
      optimal_price_seller    |-> ERR,
      effective_sellers_count |-> ERR ]

-----------------------------------------------------------------------------
(* amazon_price_gui.py: the header row and the flattening of one result *)

MAX_OFFERS_TO_DISPLAY == 10

FixedHeaders ==
    << "optimal_price", "optimal_price_condition", "optimal_price_shipper",
       "optimal_price_seller", "stock_status", "inventory_score", "real_stock",
       "effective_sellers_count", "total_offers", "fba_count", "fbm_count",
       "buybox_price", "buybox_condition", "buybox_shipper", "buybox_seller" >>

OfferHeaders == <<"price", "shipping_fee", "condition", "shipper", "seller">>

RECURSIVE OfferHeaderRun(_)
OfferHeaderRun(n) == IF n = 0 THEN <<>> ELSE OfferHeaderRun(n - 1) \o OfferHeaders

\* headers of _check_and_create_headers; its return value is their number
Headers == FixedHeaders \o OfferHeaderRun(MAX_OFFERS_TO_DISPLAY)

num_of_output_cols == Len(Headers)

\* a clearing range that covers the fixed columns only
cells_to_clear_fixed == [i \in 1..Len(FixedHeaders) |-> EMPTY]

cells_to_clear == [i \in 1..num_of_output_cols |-> EMPTY]

\* the two stock-status texts: sufficient (U+5341 U+5206), insufficient (U+4E0D ...)
SUFFICIENT == S(<<"juu", "bun">>)
INSUFFICIENT == S(<<"fu", "juu", "bun">>)

\* a stock status decided by the inventory score alone
StockStatusScoreOnly(d) ==
    IF IsInt(d.inventory_score) /\ d.inventory_score.n >= 4
    THEN SUFFICIENT ELSE INSUFFICIENT

\* a stock status whose first signal also asks for a parsed buy-box price
StockStatusNeedsPrice(d) ==
    IF \/ /\ IsInt(d.real_stock) /\ d.real_stock.n > 2
          /\ IsInt(d.buybox_info.price)
          /\ Contains(AmazonMarker, d.buybox_info.shipper.s)
       \/ IsInt(d.inventory_score) /\ d.inventory_score.n >= 4
    THEN SUFFICIENT ELSE INSUFFICIENT

\* the stock status of a Success result
StockStatus(d) ==
    IF \/ /\ IsInt(d.real_stock) /\ d.real_stock.n > 2
          /\ Contains(AmazonMarker, d.buybox_info.shipper.s)
       \/ IsInt(d.inventory_score) /\ d.inventory_score.n >= 4
    THEN SUFFICIENT ELSE INSUFFICIENT

OfferCells(offer) ==
    <<offer.price, offer.shipping_fee, offer.condition, offer.shipper, offer.seller>>

RECURSIVE FlattenOffers(_)
FlattenOffers(offers) ==
    IF offers = <<>> THEN <<>>
    ELSE OfferCells(Head(offers)) \o FlattenOffers(Tail(offers))

\* data['offers'][:MAX_OFFERS_TO_DISPLAY]
FirstOffers(offers) ==
    SubSeq(offers, 1, IF Len(offers) < MAX_OFFERS_TO_DISPLAY
                      THEN Len(offers) ELSE MAX_OFFERS_TO_DISPLAY)

\* an error row of the 11 columns the sheet had before the optimal-price columns
ErrorValuesShort == [i \in 1..11 |-> ERR]

\* values_to_write of an Error result
ErrorValues == [i \in 1..15 |-> ERR]

\* values_to_write
ValuesToWrite(d) ==
    IF d.status = "success"
    THEN << d.optimal_price, d.optimal_price_condition, d.optimal_price_shipper,
            d.optimal_price_seller, StockStatus(d), d.inventory_score,
            d.real_stock, d.effective_sellers_count, d.total_offers,
            d.fba_count, d.fbm_count, d.buybox_info.price,
            d.buybox_info.condition, d.buybox_info.shipper,
            d.buybox_info.seller >>
         \o FlattenOffers(FirstOffers(d.offers))
    ELSE ErrorValues

\* sheet.update(first cell of the row's output range, [values]): the cells the
\* values cover are overwritten, the others keep their content
UpdateRow(cells, values) ==
    [i \in 1..(IF Len(cells) > Len(values) THEN Len(cells) ELSE Len(values)) |->
        IF i <= Len(values) THEN values[i] ELSE cells[i]]

-----------------------------------------------------------------------------
(* The pages the browser can render and the settings of a run *)

MaxPanel == 3
MaxBulk == 11

DigitChar(d) ==
    CASE d = 0 -> "0" [] d = 1 -> "1" [] d = 2 -> "2" [] d = 3 -> "3"
      [] d = 4 -> "4" [] d = 5 -> "5" [] d = 6 -> "6" [] d = 7 -> "7"
      [] d = 8 -> "8" [] d = 9 -> "9"

RECURSIVE DigitsOf(_)
DigitsOf(n) ==
    IF n < 10 THEN <<DigitChar(n)>>
    ELSE DigitsOf(n \div 10) \o <<DigitChar(n % 10)>>

\* a price as the page prints it: the currency sign, then the digits
PriceText(n) == S(<<"yen">> \o DigitsOf(n))

Entry(heading, price, attr, span, seller, shipper) ==
    [ heading |-> heading, price |-> price, delivery_attr |-> attr,
      ship_span |-> span, seller |-> seller, shipper |-> shipper ]

AmazonJp == S(AmazonMarker \o <<".", "j", "p">>)
Shop == S(<<"S", "h", "o", "p">>)

\* the #aod-offer entries a secondary page is made of
EntryPool ==
    { \* 100, free delivery attribute, fulfilled by the platform
      Entry(S(NewText), PriceText(100), S(FreeMarker), None,
            S(<<"A">>), S(AmazonMarker)),
      \* 105 + 10 shipping read from the visible shipping text
      Entry(S(NewText), PriceText(105), None, S(<<"+", " ", "yen", "1", "0">>),
            S(<<"C">>), Shop),
      \* 120, no shipping node, no seller node
      Entry(S(NewText), PriceText(120), None, None, None, AmazonJp),
      \* the key of the first entry again, other shipping fee and heading
      Entry(S(<<" ", "shin", "pin", " ", " ", "x">>), PriceText(100),
            S(<<"yen", "1", "5">>), None, S(<<"A">>), S(AmazonMarker)),
      \* the key of the buy-box of the first primary pages
      Entry(S(NewText), PriceText(100), None, None, S(<<"B">>), S(AmazonMarker)),
      \* a used offer
      Entry(S(<<"chuu", "ko", "hin", " ", "-", " ", "yo", "i">>), PriceText(90),
            None, None, S(<<"D">>), Shop),
      \* an entry whose price text holds no digit, shipper node absent
      Entry(S(NewText), S(<<"-">>), None, None, S(<<"D">>), None) }

\* a long listing of n distinct merchant-fulfilled offers, 101, 102, ...
BulkPanel(n) ==
    [i \in 1..n |-> Entry(S(NewText), PriceText(100 + i), None, None,
                          S(<<"L">> \o DigitsOf(i)), Shop)]

Panels ==
    UNION {[1..n -> EntryPool] : n \in 0..MaxPanel}
    \cup {BulkPanel(n) : n \in (MAX_OFFERS_TO_DISPLAY - 1)..MaxBulk}

MainPage(price, availability, seller, shipper) ==
    [ price |-> price, availability |-> availability,
      seller |-> seller, shipper |-> shipper ]

InStockText == S(InStockMarker)
RemainingText(n) == S(<<"noko", "ri">> \o DigitsOf(n) \o <<"ten">>)

\* the primary pages
MainPages ==
    { MainPage(PriceText(100), InStockText, S(<<"B">>), S(AmazonMarker)),
      MainPage(PriceText(100), RemainingText(5), None, AmazonJp),
      MainPage(PriceText(100), RemainingText(2), S(<<"B">>), S(AmazonMarker)),
      MainPage(PriceText(100), None, None, S(AmazonMarker)),
      MainPage(None, InStockText, S(<<"B">>), S(AmazonMarker)),
      MainPage(S(<<"-">>), RemainingText(5), S(<<"B">>), Shop),
      MainPage(PriceText(100), InStockText, S(<<"B">>), Shop) }

\* (lower_multiplier, upper_multiplier) in hundredths: the defaults 0.85 / 1.15
\* and a wider setting
Multipliers == {<<85, 115>>, <<80, 120>>}

\* what the site shows once the New filter is applied
SiteNewOnly(panel) ==
    SelectSeq(panel, LAMBDA e : e.heading # None /\ Contains(NewText, e.heading.s))

\* the content of the row's output cells before the run: never written, or
\* holding the cells of an earlier run
OldCell == S(<<"o", "l", "d">>)
PriorRows == {<<>>, [i \in 1..num_of_output_cols |-> OldCell]}

Unset == [ price |-> None, seller |-> None, shipper |-> None, real_stock |-> None,
           shipping_fee |-> None, condition |-> None ]
NoData == [status |-> "none"]
\* no primary page parsed by itself, no HTTP scrape under way
NoPage == [ price |-> None, availability |-> None, seller |-> None,
            shipper |-> None ]
NoFetch == [pc |-> "none"]

-----------------------------------------------------------------------------
(* The worker: App.run_in_thread for one row with valid URLs.  The steps of *)
(* get_product_data are taken one at a time; the pages are read when they   *)
(* are parsed.                                                              *)

Init ==
    /\ driver = "none"
    /\ pc = "init"
    /\ \E m \in Multipliers : lower = m[1] /\ upper = m[2]
    /\ page_source = <<>>
    /\ filter = "none"
    /\ fault = "none"
    /\ buybox_data = Unset
    /\ side_offers = <<>>
    /\ unique_offers = <<>>
    /\ price_group = <<>>
    /\ data = NoData
    /\ row \in PriorRows
    /\ run_button = "normal"
    /\ sheet = <<>>
    /\ threads = <<>>
    /\ main_soup = NoPage
    /\ fetch = NoFetch

\* close_driver: quit the browser when there is one
close_driver(d) == IF d = "open" THEN "closed" ELSE d

\* The end of run_in_thread, by break or by exception: the finally clause
\* closes the driver and the thread's locals are gone; the sheet stays.
EndRun ==
    /\ driver' = close_driver(driver)
    /\ pc' = "finished"
    /\ page_source' = <<>>
    /\ filter' = "none"
    /\ fault' = "none"
    /\ buybox_data' = Unset
    /\ side_offers' = <<>>
    /\ unique_offers' = <<>>
    /\ price_group' = <<>>
    /\ data' = NoData
    /\ UNCHANGED <<lower, upper, row>>
    /\ UNCHANGED <<runs_vars, scrape_vars>>

\* a step of get_product_data that only moves on
Step(from, to) ==
    /\ pc = from
    /\ pc' = to
    /\ UNCHANGED <<driver, lower, upper, page_source, filter, fault, buybox_data,
                   side_offers, unique_offers, price_group, data, row>>
    /\ UNCHANGED <<runs_vars, scrape_vars>>

\* an exception of kind e reaches the except clause of get_product_data
Raise(from, e) ==
    /\ pc = from
    /\ fault' = e
    /\ data' = _get_error_result
    /\ pc' = "flatten"
    /\ UNCHANGED <<driver, lower, upper, page_source, filter, buybox_data,
                   side_offers, unique_offers, price_group, row>>
    /\ UNCHANGED <<runs_vars, scrape_vars>>

\* _check_and_create_headers wrote the header row and returned its length
CheckHeaders == pc = "init" /\ Step("init", "driver")

\* the header update raised: 0 is returned and run_in_thread raises
CheckHeadersFails ==
    /\ pc = "init"
    /\ EndRun

initialize_driver ==
    /\ pc = "driver"
    /\ driver' = "open"
    /\ pc' = "row"
    /\ UNCHANGED <<lower, upper, page_source, filter, fault, buybox_data,
                   side_offers, unique_offers, price_group, data, row>>
    /\ UNCHANGED <<runs_vars, scrape_vars>>

\* initialize_driver returned False: run_in_thread raises
InitializeDriverFails ==
    /\ pc = "driver"
    /\ EndRun

\* get_product_data, step 1: without a driver the error result is returned at
\* once, else the primary page is navigated to
NavigateMain ==
    /\ pc = "row"
    /\ IF driver # "open"
       THEN /\ data' = _get_error_result
            /\ pc' = "flatten"
       ELSE /\ pc' = "main_wait"
            /\ UNCHANGED data
    /\ UNCHANGED <<driver, lower, upper, page_source, filter, fault, buybox_data,
                   side_offers, unique_offers, price_group, row>>
    /\ UNCHANGED <<runs_vars, scrape_vars>>

\* driver.get(main_page_url) raises
NavigateMainFails == driver = "open" /\ Raise("row", "navigation")

\* the primary page's container is present: the buy-box is parsed
MainContainerFound ==
    /\ pc = "main_wait"
    /\ \E soup \in MainPages : buybox_data' = _parse_main_page_buybox(soup)
    /\ pc' = "side"
    /\ UNCHANGED <<driver, lower, upper, page_source, filter, fault, side_offers,
                   unique_offers, price_group, data, row>>
    /\ UNCHANGED <<runs_vars, scrape_vars>>

\* a primary-page timeout that is logged and passed over
MainContainerTimeoutPassed ==
    /\ pc = "main_wait"
    /\ fault' = "container_wait"
    /\ pc' = "side"
    /\ UNCHANGED <<driver, lower, upper, page_source, filter, buybox_data,
                   side_offers, unique_offers, price_group, data, row>>
    /\ UNCHANGED <<runs_vars, scrape_vars>>

\* the 15 s wait for the primary page's container times out
MainContainerTimeout == pc = "main_wait" /\ Raise("main_wait", "container_wait")

\* step 2, _get_filtered_side_panel_offers: the secondary page is navigated to
NavigateSide == pc = "side" /\ Step("side", "side_wait")

\* driver.get(side_panel_url) raises
NavigateSideFails == pc = "side" /\ Raise("side", "navigation")

\* the secondary page's container is present
SideContainerFound == pc = "side_wait" /\ Step("side_wait", "filter")

\* the 15 s wait for the secondary page's container times out
SideContainerTimeout == pc = "side_wait" /\ Raise("side_wait", "container_wait")

\* the attempt to apply the New filter has ended with outcome o
FilterAttempt(o) ==
    /\ pc = "filter"
    /\ filter' = o
    /\ pc' = "parse"
    /\ UNCHANGED <<driver, lower, upper, page_source, fault, buybox_data,
                   side_offers, unique_offers, price_group, data, row>>
    /\ UNCHANGED <<runs_vars, scrape_vars>>

\* both clicks went through and the New swatch became visible
ApplyNewFilter == pc = "filter" /\ FilterAttempt("applied")

\* the filter button is not found or its click raises
FilterButtonMissing == pc = "filter" /\ FilterAttempt("no_button")

\* the New option is not found or its click raises
NewOptionMissing == pc = "filter" /\ FilterAttempt("no_option")

\* a timeout of the filter wait that is not caught
FilterWaitRaises == pc = "filter" /\ Raise("filter", "filter_wait")

\* the 10 s wait for the New swatch times out
FilterWaitTimesOut == pc = "filter" /\ FilterAttempt("timeout")

\* the page rendered now is parsed; the except clause of the filter attempt
\* has logged the failure and nothing of it is kept
ParseSidePanel ==
    /\ pc = "parse"
    /\ \E panel \in Panels :
          /\ page_source' = IF filter = "applied" THEN SiteNewOnly(panel) ELSE panel
          /\ side_offers' = _parse_side_panel_offers(page_source')
    /\ filter' = IF filter = "applied" THEN "applied" ELSE "failed"
    /\ pc' = "select"
    /\ UNCHANGED <<driver, lower, upper, fault, buybox_data, unique_offers,
                   price_group, data, row>>
    /\ UNCHANGED <<runs_vars, scrape_vars>>

\* steps 3 to 5 and the return of the Success result
SelectAndReturn ==
    /\ pc = "select"
    /\ unique_offers' = Dedup(AllOffers(buybox_data, side_offers))
    /\ price_group' = Select(buybox_data, unique_offers', lower, upper).price_group
    /\ data' = SuccessResult(buybox_data, side_offers, lower, upper)
    /\ pc' = "flatten"
    /\ UNCHANGED <<driver, lower, upper, page_source, filter, fault, buybox_data,
                   side_offers, row>>
    /\ UNCHANGED <<runs_vars, scrape_vars>>

\* the row's output range is cleared
ClearRow ==
    /\ pc = "flatten"
    /\ row' = UpdateRow(row, cells_to_clear)
    /\ pc' = "write"
    /\ UNCHANGED <<driver, lower, upper, page_source, filter, fault, buybox_data,
                   side_offers, unique_offers, price_group, data>>
    /\ UNCHANGED <<runs_vars, scrape_vars>>

\* values_to_write is written over the cleared range
WriteRow ==
    /\ pc = "write"
    /\ row' = UpdateRow(row, ValuesToWrite(data))
    /\ pc' = "written"
    /\ UNCHANGED <<driver, lower, upper, page_source, filter, fault, buybox_data,
                   side_offers, unique_offers, price_group, data>>
    /\ UNCHANGED <<runs_vars, scrape_vars>>

\* a sheet update raises: the exception leaves the loop
SheetUpdateFails ==
    /\ pc \in {"flatten", "write"}
    /\ EndRun

\* the sheet has no further row: the loop is left
LoopEnds ==
    /\ pc = "written"
    /\ EndRun

Next ==
    \/ CheckHeaders
    \/ CheckHeadersFails
    \/ initialize_driver
    \/ InitializeDriverFails
    \/ NavigateMain
    \/ NavigateMainFails
    \/ MainContainerFound
    \/ MainContainerTimeout
    \/ NavigateSide
    \/ NavigateSideFails
    \/ SideContainerFound
    \/ SideContainerTimeout
    \/ ApplyNewFilter
    \/ FilterButtonMissing
    \/ NewOptionMissing
    \/ FilterWaitTimesOut
    \/ ParseSidePanel
    \/ SelectAndReturn
    \/ ClearRow
    \/ WriteRow
    \/ SheetUpdateFails
    \/ LoopEnds

Spec == Init /\ [][Next]_vars

-----------------------------------------------------------------------------
(* Steps 3 to 5 of get_product_data by themselves: the call has come to     *)
(* line 77 with a buy-box and panel offers the two parsers can return.      *)

\* multipliers that put the reference price itself outside the band, and
\* 1.0 / 1.0, the band that holds the reference price only
NarrowMultipliers == {<<105, 125>>, <<100, 100>>}

InitSelect ==
    /\ driver = "open"
    /\ pc = "select"
    /\ \E m \in Multipliers \cup NarrowMultipliers : lower = m[1] /\ upper = m[2]
    /\ \E panel \in Panels :
          /\ page_source = SiteNewOnly(panel)
          /\ side_offers = _parse_side_panel_offers(page_source)
    /\ filter = "applied"
    /\ fault = "none"
    /\ \E soup \in MainPages : buybox_data = _parse_main_page_buybox(soup)
    /\ unique_offers = <<>>
    /\ price_group = <<>>
    /\ data = NoData
    /\ row = <<>>
    /\ run_button = "normal"
    /\ sheet = <<>>
    /\ threads = <<>>
    /\ main_soup = NoPage
    /\ fetch = NoFetch

NextSelect == SelectAndReturn

SpecSelect == InitSelect /\ [][NextSelect]_vars

-----------------------------------------------------------------------------
(* The two parsers by themselves, on pages whose price and availability     *)
(* texts take more shapes than the pages of the worker above: both pages    *)
(* have loaded, the buy-box is parsed, the panel is parsed, steps 3 to 5    *)
(* run and the row is written.                                              *)

MaxEntries == 2

\* texts a price node can hold
PriceTexts ==
    { PriceText(100),
      \* a thousands separator: 1,200
      S(<<"yen", "1", ",", "2", "0", "0">>),
      \* a price range: the last number is 110
      S(<<"yen", "9", "0", " ", "-", " ", "yen", "1", "1", "0">>),
      \* a leading zero
      S(<<"0", "7">>),
      \* no digit and no comma
      S(<<"-">>),
      \* a comma and no digit
      S(<<",">>),
      \* digits, then a comma that stands by itself
      S(<<"1", "0", "x", ",">>),
      \* a node without text
      S(<<>>) }

\* texts an availability node can hold
AvailabilityTexts ==
    { InStockText,
      RemainingText(5),
      RemainingText(12),
      RemainingText(0),
      \* a remaining phrase, then the in-stock phrase
      S(<<"noko", "ri", "3", "ten", " ">> \o InStockMarker),
      \* two remaining phrases
      S(<<"noko", "ri", "4", "ten", "noko", "ri", "9", "ten">>),
      \* the frame of the remaining phrase without a number
      S(<<"noko", "ri", "ten", "7">>),
      \* a number after the phrase's first half only
      S(<<"noko", "ri", "8", "x">>),
      S(<<"x">>),
      S(<<>>) }

ParsePages ==
    { MainPage(price, availability, S(<<"B">>), S(AmazonMarker)) :
        price \in PriceTexts \cup {None},
        availability \in AvailabilityTexts \cup {None} }

ParseEntries ==
    { Entry(S(NewText), price, None, None, S(<<"A">>), Shop) :
        price \in {PriceText(105), S(<<"1", "0", "x", ",">>), S(<<"-">>),
                   S(<<>>), None} }
    \cup { Entry(S(UsedMarker), PriceText(90), None, None, S(<<"D">>), Shop),
           Entry(None, PriceText(95), None, None, S(<<"E">>), Shop) }

ParsePanels == UNION {[1..n -> ParseEntries] : n \in 0..MaxEntries}

InitParse ==
    /\ driver = "open"
    /\ pc = "main_page"
    /\ lower = 85 /\ upper = 115
    /\ page_source \in ParsePanels
    /\ filter = "failed"
    /\ fault = "none"
    /\ buybox_data = Unset
    /\ side_offers = <<>>
    /\ unique_offers = <<>>
    /\ price_group = <<>>
    /\ data = NoData
    /\ row = <<>>
    /\ run_button = "normal"
    /\ sheet = <<>>
    /\ threads = <<>>
    /\ main_soup \in ParsePages
    /\ fetch = NoFetch

\* buybox_data = self._parse_main_page_buybox(main_soup)
ParseMainPage ==
    /\ pc = "main_page"
    /\ buybox_data' = _parse_main_page_buybox(main_soup)
    /\ pc' = "side_page"
    /\ UNCHANGED <<driver, lower, upper, page_source, filter, fault, side_offers,
                   unique_offers, price_group, data, row>>
    /\ UNCHANGED <<runs_vars, scrape_vars>>

\* return self._parse_side_panel_offers(side_soup)
ParseSidePage ==
    /\ pc = "side_page"
    /\ side_offers' = _parse_side_panel_offers(page_source)
    /\ pc' = "select"
    /\ UNCHANGED <<driver, lower, upper, page_source, filter, fault, buybox_data,
                   unique_offers, price_group, data, row>>
    /\ UNCHANGED <<runs_vars, scrape_vars>>

NextParse ==
    \/ ParseMainPage
    \/ ParseSidePage
    \/ SelectAndReturn
    \/ ClearRow
    \/ WriteRow

SpecParse == InitParse /\ [][NextParse]_vars

-----------------------------------------------------------------------------
(* App.start_process and App.run_in_thread over the whole sheet: the run    *)
(* button, the worker threads and the browser session of each.  Here        *)
(* get_product_data is one call: it begins to navigate and it returns.      *)

MaxRuns == 2
MaxValid == 2

\* consecutive_empty_count >= 10 leaves the loop
EMPTY_LIMIT == 10

Runs == 1..MaxRuns

Rows(n, kind) == [i \in 1..n |-> kind]

BlankRuns == {0, 1, EMPTY_LIMIT - 1, EMPTY_LIMIT}

\* the grid from start_row on: rows whose URL cells hold http URLs ("url")
\* between rows where they are empty ("blank") or hold other text
\* ("invalid"); a read beyond the grid is answered with status 400
Sheets ==
    { Rows(a, "blank") \o Rows(v, "url") \o Rows(b, kind) :
        a \in BlankRuns, v \in 0..MaxValid, b \in BlankRuns,
        kind \in {"blank", "invalid"} }

\* a thread not started, and the locals of run_in_thread at its first line
IdleThread ==
    [ pc |-> "idle", driver |-> "none", current_row |-> 1,
      consecutive_empty_count |-> 0, started |-> {}, status |-> "none",
      written |-> {}, error_rows |-> {}, users |-> {}, ended |-> "none" ]

InitRuns ==
    /\ driver = "none"
    /\ pc = "init"
    /\ lower = 85 /\ upper = 115
    /\ page_source = <<>>
    /\ filter = "none"
    /\ fault = "none"
    /\ buybox_data = Unset
    /\ side_offers = <<>>
    /\ unique_offers = <<>>
    /\ price_group = <<>>
    /\ data = NoData
    /\ row = <<>>
    /\ run_button = "normal"
    /\ sheet \in Sheets
    /\ threads = [r \in Runs |-> IdleThread]
    /\ main_soup = NoPage
    /\ fetch = NoFetch

\* thread r goes on with its locals changed to t
Continue(r, t) ==
    /\ threads' = [threads EXCEPT ![r] = t]
    /\ UNCHANGED <<run_button, sheet>>
    /\ UNCHANGED <<row_vars, scrape_vars>>

\* thread r moves from one line to another
Goto(r, from, to) ==
    /\ threads[r].pc = from
    /\ Continue(r, [threads[r] EXCEPT !.pc = to])

\* thread r leaves the try block, by break or by exception
Leave(r, from, how) ==
    /\ threads[r].pc \in from
    /\ Continue(r, [threads[r] EXCEPT !.pc = "finally", !.ended = how])

\* start_process that leaves the run button enabled
start_process_keeps_button ==
    /\ run_button = "normal"
    /\ \E r \in Runs, complete \in BOOLEAN :
          /\ threads[r].pc = "idle"
          /\ \A q \in 1..(r - 1) : threads[q].pc # "idle"
          /\ threads' = IF complete THEN [threads EXCEPT ![r].pc = "setup"]
                                    ELSE threads
    /\ UNCHANGED <<run_button, sheet>>
    /\ UNCHANGED <<row_vars, scrape_vars>>

\* The run button is pressed; a disabled button does not call its command.
\* With a complete configuration the button is disabled and a thread started.
start_process ==
    /\ run_button = "normal"
    /\ \E r \in Runs, complete \in BOOLEAN :
          /\ threads[r].pc = "idle"
          /\ \A q \in 1..(r - 1) : threads[q].pc # "idle"
          /\ IF complete
             THEN /\ run_button' = "disabled"
                  /\ threads' = [threads EXCEPT ![r].pc = "setup"]
             ELSE UNCHANGED <<run_button, threads>>
    /\ UNCHANGED sheet
    /\ UNCHANGED <<row_vars, scrape_vars>>

\* credentials, spreadsheet and worksheet are opened
OpenSheet(r) == threads[r].pc = "setup" /\ Goto(r, "setup", "headers")

OpenSheetFails(r) == threads[r].pc = "setup" /\ Leave(r, {"setup"}, "sheets_init")

\* _check_and_create_headers returned the number of columns
WriteHeaders(r) == threads[r].pc = "headers" /\ Goto(r, "headers", "driver")

\* it returned 0: run_in_thread raises
WriteHeadersFails(r) == threads[r].pc = "headers" /\ Leave(r, {"headers"}, "headers")

\* scraper.initialize_driver returned True: the thread has its own session
StartDriver(r) ==
    /\ threads[r].pc = "driver"
    /\ Continue(r, [threads[r] EXCEPT !.pc = "read", !.driver = "open"])

\* it returned False: run_in_thread raises
StartDriverFails(r) == threads[r].pc = "driver" /\ Leave(r, {"driver"}, "driver_init")

\* a read whose counter is not reset by a row that has its URLs
ReadRowKeepsCount(r) ==
    LET t == threads[r]
    IN  /\ t.pc = "read"
        /\ IF t.current_row > Len(sheet)
           THEN Continue(r, [t EXCEPT !.pc = "finally", !.ended = "sheet_end"])
           ELSE IF sheet[t.current_row] # "url"
           THEN IF t.consecutive_empty_count + 1 >= EMPTY_LIMIT
                THEN Continue(r, [t EXCEPT !.pc = "finally",
                                           !.ended = "invalid_rows",
                                           !.consecutive_empty_count = @ + 1])
                ELSE Continue(r, [t EXCEPT !.consecutive_empty_count = @ + 1,
                                           !.current_row = @ + 1])
           ELSE Continue(r, [t EXCEPT !.pc = "call"])

\* sheet.row_values(current_row) and the check of the two URLs: both are
\* there and start with "http"
ReadRow(r) ==
    LET t == threads[r]
    IN  /\ t.pc = "read"
        /\ IF t.current_row > Len(sheet)
           THEN Continue(r, [t EXCEPT !.pc = "finally", !.ended = "sheet_end"])
           ELSE IF sheet[t.current_row] # "url"
           THEN IF t.consecutive_empty_count + 1 >= EMPTY_LIMIT
                THEN Continue(r, [t EXCEPT !.pc = "finally",
                                           !.ended = "invalid_rows",
                                           !.consecutive_empty_count = @ + 1])
                ELSE Continue(r, [t EXCEPT !.consecutive_empty_count = @ + 1,
                                           !.current_row = @ + 1])
           ELSE Continue(r, [t EXCEPT !.pc = "call",
                                      !.consecutive_empty_count = 0])

\* the read raises with another status
ReadRowFails(r) == threads[r].pc = "read" /\ Leave(r, {"read"}, "sheet_read")

\* scraper.get_product_data is called: the thread's own session navigates
BeginNavigation(r) ==
    LET t == threads[r]
    IN  /\ t.pc = "call"
        /\ Continue(r, [t EXCEPT !.pc = "resolving",
                                 !.started = @ \cup {t.current_row},
                                 !.users = @ \cup {r}])

\* a get_product_data whose failure reaches the row loop as an exception
ProductReturnsOrRaises(r) ==
    LET t == threads[r]
    IN  /\ t.pc = "resolving"
        /\ \/ Continue(r, [t EXCEPT !.pc = "clear", !.status = "success"])
           \/ Continue(r, [t EXCEPT !.pc = "finally", !.status = "error",
                                    !.ended = "product_error"])

\* get_product_data returns its result, Success or Error (it catches every
\* Exception itself), and values_to_write is made from data['status']
ProductReturns(r) ==
    LET t == threads[r]
    IN  /\ t.pc = "resolving"
        /\ \E status \in {"success", "error"} :
              Continue(r, [t EXCEPT !.pc = "clear", !.status = status])

\* the row's output range is cleared
ClearRange(r) == threads[r].pc = "clear" /\ Goto(r, "clear", "write")

\* the values are written, the error row for an Error result; after the
\* pause the next row is taken
WriteValues(r) ==
    LET t == threads[r]
    IN  /\ t.pc = "write"
        /\ Continue(r, [t EXCEPT !.pc = "read",
                                 !.written = @ \cup {t.current_row},
                                 !.error_rows = IF t.status = "error"
                                                THEN @ \cup {t.current_row}
                                                ELSE @,
                                 !.current_row = @ + 1])

\* a sheet update raises
UpdateFails(r) ==
    threads[r].pc \in {"clear", "write"} /\ Leave(r, {"clear", "write"}, "sheet_write")

\* a close that is the last statement of the try block instead: it is reached
\* by the two breaks only
CloseAfterLoop(r) ==
    LET t == threads[r]
    IN  /\ t.pc = "finally"
        /\ Continue(r, [t EXCEPT !.pc = "enable",
                                 !.driver = IF t.ended \in {"sheet_end", "invalid_rows"}
                                            THEN close_driver(t.driver)
                                            ELSE t.driver])

\* finally: scraper.close_driver() when there is a scraper
CloseSession(r) ==
    LET t == threads[r]
    IN  /\ t.pc = "finally"
        /\ Continue(r, [t EXCEPT !.pc = "enable",
                                 !.driver = close_driver(t.driver)])

\* finally: the run button is enabled again, the thread ends and its locals
\* are gone
EnableButton(r) ==
    /\ threads[r].pc = "enable"
    /\ run_button' = "normal"
    /\ threads' = [threads EXCEPT ![r] =
                      [IdleThread EXCEPT !.pc = "done",
                                         !.driver = threads[r].driver,
                                         !.users = threads[r].users]]
    /\ UNCHANGED sheet
    /\ UNCHANGED <<row_vars, scrape_vars>>

NextRuns ==
    \/ start_process
    \/ \E r \in Runs :
          \/ OpenSheet(r)
          \/ OpenSheetFails(r)
          \/ WriteHeaders(r)
          \/ WriteHeadersFails(r)
          \/ StartDriver(r)
          \/ StartDriverFails(r)
          \/ ReadRow(r)
          \/ ReadRowFails(r)
          \/ BeginNavigation(r)
          \/ ProductReturns(r)
          \/ ClearRange(r)
          \/ WriteValues(r)
          \/ UpdateFails(r)
          \/ CloseSession(r)
          \/ EnableButton(r)

SpecRuns == InitRuns /\ [][NextRuns]_vars

\* a step of the worker thread r: the thread is scheduled until it ends, the
\* press of the button is the user's
Worker(r) ==
    \/ OpenSheet(r) \/ OpenSheetFails(r)
    \/ WriteHeaders(r) \/ WriteHeadersFails(r)
    \/ StartDriver(r) \/ StartDriverFails(r)
    \/ ReadRow(r) \/ ReadRowFails(r)
    \/ BeginNavigation(r) \/ ProductReturns(r)
    \/ ClearRange(r) \/ WriteValues(r) \/ UpdateFails(r)
    \/ CloseSession(r) \/ EnableButton(r)

SpecWorker == InitRuns /\ [][NextRuns]_vars /\ \A r \in Runs : WF_vars(Worker(r))

-----------------------------------------------------------------------------
(* The requests scrapers: AmazonScraper (amazon_core.py), its run_process   *)
(* over the sheet and the retry loop of _scrape_product_data, and           *)
(* AmazonImageScraper._scrape_image_urls (amazon_image_core.py), the same   *)
(* retry loop around the extraction of the image URLs.                      *)
(*                                                                          *)
(* A URL is a sequence of characters; "http" stands for its scheme, host    *)
(* and path up to the image marker, "jpg" for its extension, "SL1500" for   *)
(* the six characters of the high-resolution modifier, "\\u002F" for the    *)
(* six characters of an escaped slash and "\\x" for a truncated escape.     *)

MaxRetries == 2
MaxScript == 2
MaxThumbs == 2

\* ordered_urls[:10]
MAX_IMAGES == 10

RECURSIVE Pow2(_)
Pow2(n) == IF n = 0 THEN 1 ELSE 2 * Pow2(n - 1)

\* the characters of [a-zA-Z0-9\-_+]
IdChars ==
    Digits \cup {"a", "b", "c", "d", "I", "S", "X", "Y", "_", "-", "+",
                 "SL1500", "jpg"}

\* the end of the maximal run of id characters of t that starts at i
IdRunEnd(t, i) ==
    CHOOSE e \in (i - 1)..Len(t) :
        /\ \A m \in i..e : t[m] \in IdChars
        /\ (e < Len(t) => t[e + 1] \notin IdChars)

\* re.search(r'/I/([a-zA-Z0-9\-_+]+)\.', t) matches at position i
ImageIdAt(t, i) ==
    /\ i + 2 <= Len(t)
    /\ t[i] = "/" /\ t[i + 1] = "I" /\ t[i + 2] = "/"
    /\ LET e == IdRunEnd(t, i + 3)
       IN  e >= i + 3 /\ e < Len(t) /\ t[e + 1] = "."

_get_image_id(url) ==
    IF url.k # "str" THEN None
    ELSE LET t == url.s
             hits == {i \in 1..Len(t) : ImageIdAt(t, i)}
         IN  IF hits = {} THEN None
             ELSE LET i == CHOOSE x \in hits : \A y \in hits : x <= y
                  IN  S(SubSeq(t, i + 3, IdRunEnd(t, i + 3)))

\* img_url.encode('utf-8').decode('unicode_escape') raises on a truncated escape
DecodeRaises(t) == \E i \in 1..Len(t) : t[i] = "\\x"

\* the decoded text of a URL whose escapes are complete
DecodeEscapes(t) == [i \in 1..Len(t) |-> IF t[i] = "\\u002F" THEN "/" ELSE t[i]]

\* the pattern \._.*?_\. matches at i and ends at j + 1, j the least there is
ModifierEnds(t, i) ==
    {j \in (i + 2)..(Len(t) - 1) : t[j] = "_" /\ t[j + 1] = "."}

ModifierAt(t, i) ==
    /\ i + 1 <= Len(t)
    /\ t[i] = "." /\ t[i + 1] = "_"
    /\ ModifierEnds(t, i) # {}

\* re.sub(r'\._.*?_\.', '._SL1500_.', t) from position i on
RECURSIVE SubModifiersFrom(_, _)
SubModifiersFrom(t, i) ==
    IF i > Len(t) THEN <<>>
    ELSE IF ModifierAt(t, i)
    THEN LET j == CHOOSE x \in ModifierEnds(t, i) :
                      \A y \in ModifierEnds(t, i) : x <= y
         IN  <<".", "_", "SL1500", "_", ".">> \o SubModifiersFrom(t, j + 2)
    ELSE <<t[i]>> \o SubModifiersFrom(t, i + 1)

\* hires_url of a thumbnail src
HiResUrl(src) == S(SubModifiersFrom(src.s, 1))

\* the loop over the candidate URLs: one with an id not processed yet is
\* appended
RECURSIVE Collect(_, _, _)
Collect(urls, ordered_urls, processed_ids) ==
    IF urls = <<>> THEN ordered_urls
    ELSE LET img_url == Head(urls)
             img_id == _get_image_id(img_url)
         IN  IF img_id # None /\ img_id \notin processed_ids
             THEN Collect(Tail(urls), Append(ordered_urls, img_url),
                          processed_ids \cup {img_id})
             ELSE Collect(Tail(urls), ordered_urls, processed_ids)

\* the main logic: the hiRes URLs of the script data, decoded
ScriptUrls(html) ==
    IF html.script = None THEN <<>>
    ELSE Collect([i \in 1..Len(html.script.s) |->
                     S(DecodeEscapes(html.script.s[i].s))], <<>>, {})

\* the alternative logic: the thumbnails of #altImages that have a src
ThumbnailUrls(html) ==
    IF html.thumbs = None THEN <<>>
    ELSE LET with_src == SelectSeq(html.thumbs.s,
                                   LAMBDA src : src # None /\ src.s # <<>>)
         IN  Collect([i \in 1..Len(with_src) |-> HiResUrl(with_src[i])], <<>>, {})

\* an extraction that adds the thumbnails to the URLs of the script
ImageUrlsOfBoth(html) ==
    LET from_script == ScriptUrls(html)
        ordered_urls ==
            IF html.thumbs = None THEN from_script
            ELSE LET with_src == SelectSeq(html.thumbs.s,
                                           LAMBDA src : src # None /\ src.s # <<>>)
                 IN  Collect([i \in 1..Len(with_src) |-> HiResUrl(with_src[i])],
                             from_script,
                             {_get_image_id(from_script[i]) :
                                 i \in 1..Len(from_script)})
    IN  L(SubSeq(ordered_urls, 1, IF Len(ordered_urls) < MAX_IMAGES
                                   THEN Len(ordered_urls) ELSE MAX_IMAGES))

\* lines 84-132: the list _scrape_image_urls returns for a response
ImageUrls(html) ==
    LET from_script == ScriptUrls(html)
        ordered_urls == IF from_script # <<>> THEN from_script
                        ELSE ThumbnailUrls(html)
    IN  L(SubSeq(ordered_urls, 1, IF Len(ordered_urls) < MAX_IMAGES
                                   THEN Len(ordered_urls) ELSE MAX_IMAGES))

\* the extraction raises: a hiRes URL of the script data does not decode
ImagePageRaises(html) ==
    /\ html.script # None
    /\ \E i \in 1..Len(html.script.s) : DecodeRaises(html.script.s[i].s)

\* text.strip()
RECURSIVE StripSpace(_)
StripSpace(t) ==
    IF t = <<>> THEN t
    ELSE IF Head(t) = " " THEN StripSpace(Tail(t))
    ELSE IF t[Len(t)] = " " THEN StripSpace(SubSeq(t, 1, Len(t) - 1))
    ELSE t

\* the dict _scrape_product_data returns, of which the model keeps data['price']
\* (the key is the word for price), read from the .a-price-whole node
ProductData(html) ==
    [ k |-> "dict",
      price |-> IF html.price_whole # None
                  THEN S(RemoveCommas(StripSpace(html.price_whole.s)))
                  ELSE EMPTY ]

(* The responses and the settings *)

ImageUrl(id, modifiers) ==
    S(<<"http", "/", "I", "/">> \o id \o <<".">> \o modifiers \o <<"jpg">>)

\* the hiRes URLs the script data can hold
ScriptPool ==
    { ImageUrl(<<"a">>, <<>>),
      \* the image a again, under another URL
      ImageUrl(<<"a">>, <<"_", "S", "X", "_", ".">>),
      \* a URL without an image id
      S(<<"http", "/", "x", ".", "jpg">>),
      \* escaped slashes around the marker
      S(<<"http", "\\u002F", "I", "\\u002F", "c", ".", "jpg">>),
      \* a truncated escape
      S(<<"http", "/", "I", "/", "d", "\\x">>) }

\* the src values the thumbnails can hold; None is an img without src
ThumbPool ==
    { None,
      ImageUrl(<<"a">>, <<"_", "S", "_", ".">>),
      \* the image a again, with a modifier of two parts
      ImageUrl(<<"a">>, <<"_", "S", "X", "_", "Y", "_", ".">>),
      \* no modifier to replace
      ImageUrl(<<"d">>, <<>>) }

\* n images with ids 1, 2, ...
BulkImages(n) == [i \in 1..n |-> ImageUrl(DigitsOf(i), <<"_", "S", "_", ".">>)]

ImagePage(script, thumbs) == [script |-> script, thumbs |-> thumbs]

\* the pages of the image scraper: script is None without the colorImages
\* data, thumbs is None without the #altImages block
ImagePages ==
    { ImagePage(script, thumbs) :
        script \in {None} \cup
                   {L(q) : q \in UNION {[1..n -> ScriptPool] : n \in 0..MaxScript}},
        thumbs \in {None} \cup
                   {L(q) : q \in UNION {[1..n -> ThumbPool] : n \in 0..MaxThumbs}} }
    \cup { ImagePage(L(BulkImages(MAX_IMAGES + 1)), L(BulkImages(1))),
           ImagePage(None, L(BulkImages(MAX_IMAGES + 1))) }

\* the pages of the product scraper
ProductPages ==
    { [price_whole |-> None],
      [price_whole |-> S(<<" ", "1", ",", "2", "0", "0", " ">>)] }

\* the pages the retry loop is followed on by itself
RetryPages ==
    { ImagePage(None, None),
      ImagePage(L(<<ImageUrl(<<"a">>, <<>>)>>), None),
      ImagePage(L(<<S(<<"http", "/", "I", "/", "d", "\\x">>)>>), None) }

\* config['max_retries'], an integer the user enters, and config['retry_delay']
RetrySettings == (-1)..MaxRetries
RetryDelays == {5}

\* the locals of run_process and of the retry loop before the first row; site
\* is the pages the server can answer with
StartFetch(scraper, site, max_retries, retry_delay) ==
    [ scraper |-> scraper, pc |-> IF scraper = "image" THEN "attempt" ELSE "headers",
      site |-> site,
      max_retries |-> max_retries, retry_delay |-> retry_delay,
      current_row |-> 1, consecutive_empty_count |-> 0,
      attempt |-> 0, requests |-> 0, slept |-> <<>>,
      response |-> None, result |-> None, written |-> {}, ended |-> "none" ]

\* AmazonScraper(config).run_process() over a sheet, or
\* AmazonImageScraper(config)._scrape_image_urls(url) for a URL that serves
\* one of the pages
InitFetch(pages) ==
    /\ driver = "none"
    /\ pc = "init"
    /\ lower = 85 /\ upper = 115
    /\ page_source = <<>>
    /\ filter = "none"
    /\ fault = "none"
    /\ buybox_data = Unset
    /\ side_offers = <<>>
    /\ unique_offers = <<>>
    /\ price_group = <<>>
    /\ data = NoData
    /\ row = <<>>
    /\ run_button = "normal"
    /\ threads = <<>>
    /\ main_soup = NoPage
    /\ \E m \in RetrySettings, d \in RetryDelays :
          \/ /\ sheet \in Sheets
             /\ fetch = StartFetch("product", ProductPages, m, d)
          \/ /\ sheet = <<>>
             /\ \E html \in pages : fetch = StartFetch("image", {html}, m, d)

InitScrape == InitFetch(ImagePages)

\* the scraper goes on with its locals changed to f
Proceed(f) ==
    /\ fetch' = f
    /\ UNCHANGED <<row_vars, runs_vars, main_soup>>

\* run_process: _check_and_create_headers returned
CheckScraperHeaders ==
    /\ fetch.pc = "headers"
    /\ Proceed([fetch EXCEPT !.pc = "read"])

\* it raised: run_process returns
ScraperHeadersFail ==
    /\ fetch.pc = "headers"
    /\ Proceed([fetch EXCEPT !.pc = "done", !.ended = "headers"])

\* run_process: sheet.row_values(current_row) and the check of the URL, which
\* is for an empty cell only; a row with any text calls _scrape_product_data,
\* which enters its loop
ReadUrlRow ==
    /\ fetch.pc = "read"
    /\ IF fetch.current_row > Len(sheet)
       THEN Proceed([fetch EXCEPT !.pc = "done", !.ended = "sheet_end"])
       ELSE IF sheet[fetch.current_row] = "blank"
       THEN IF fetch.consecutive_empty_count + 1 >= EMPTY_LIMIT
            THEN Proceed([fetch EXCEPT !.pc = "done", !.ended = "empty_rows",
                                       !.consecutive_empty_count = @ + 1])
            ELSE Proceed([fetch EXCEPT !.consecutive_empty_count = @ + 1,
                                       !.current_row = @ + 1])
       ELSE Proceed([fetch EXCEPT !.pc = "attempt",
                                  !.consecutive_empty_count = 0,
                                  !.attempt = 0, !.requests = 0, !.slept = <<>>,
                                  !.response = None, !.result = None])

\* the read raises with another error: the loop is left
ReadUrlRowFails ==
    /\ fetch.pc = "read"
    /\ Proceed([fetch EXCEPT !.pc = "done", !.ended = "sheet_read"])

\* range(max_retries + 1) is used up before any attempt: return None
RangeExhausted ==
    /\ fetch.pc = "attempt"
    /\ fetch.attempt > fetch.max_retries
    /\ Proceed([fetch EXCEPT !.pc = "returned", !.result = None])

\* session.get answers and raise_for_status passes: the page is parsed and the
\* result returned; text that is no URL is not requested (session.get raises
\* MissingSchema or InvalidSchema, which are RequestExceptions)
RequestSucceeds ==
    /\ fetch.pc = "attempt"
    /\ fetch.attempt <= fetch.max_retries
    /\ fetch.scraper = "product" => sheet[fetch.current_row] = "url"
    /\ \E html \in fetch.site :
          /\ fetch.scraper = "image" => ~ImagePageRaises(html)
          /\ Proceed([fetch EXCEPT
                 !.pc = "returned",
                 !.requests = @ + 1,
                 !.response = html,
                 !.result = IF fetch.scraper = "image" THEN ImageUrls(html)
                            ELSE ProductData(html)])

\* the request is answered but a hiRes URL does not decode: the exception is
\* no RequestException and leaves _scrape_image_urls
ExtractionRaises ==
    /\ fetch.pc = "attempt"
    /\ fetch.attempt <= fetch.max_retries
    /\ fetch.scraper = "image"
    /\ \E html \in fetch.site :
          /\ ImagePageRaises(html)
          /\ Proceed([fetch EXCEPT !.pc = "done", !.ended = "raised",
                                   !.requests = @ + 1, !.response = html])

\* a failed request that is always followed by the wait
RequestFailsAlwaysWaits ==
    /\ fetch.pc = "attempt"
    /\ fetch.attempt <= fetch.max_retries
    /\ IF fetch.attempt < fetch.max_retries
       THEN Proceed([fetch EXCEPT
                !.requests = @ + 1,
                !.slept = Append(@, fetch.retry_delay * Pow2(fetch.attempt)),
                !.attempt = @ + 1])
       ELSE Proceed([fetch EXCEPT
                !.pc = "returned",
                !.requests = @ + 1,
                !.slept = Append(@, fetch.retry_delay * Pow2(fetch.attempt)),
                !.result = None])

\* session.get or raise_for_status raises a RequestException: wait
\* retry_delay * 2 ** attempt and go round again, or return None after the
\* last attempt
RequestFails ==
    /\ fetch.pc = "attempt"
    /\ fetch.attempt <= fetch.max_retries
    /\ IF fetch.attempt < fetch.max_retries
       THEN Proceed([fetch EXCEPT
                !.requests = @ + 1,
                !.slept = Append(@, fetch.retry_delay * Pow2(fetch.attempt)),
                !.attempt = @ + 1])
       ELSE Proceed([fetch EXCEPT
                !.pc = "returned",
                !.requests = @ + 1,
                !.result = None])

\* run_process: the data is written to the row when there is any, then the
\* pause and the next row
WriteScraped ==
    /\ fetch.pc = "returned"
    /\ fetch.scraper = "product"
    /\ Proceed([fetch EXCEPT
           !.pc = "read",
           !.written = IF fetch.result # None THEN @ \cup {fetch.current_row}
                       ELSE @,
           !.current_row = @ + 1])

\* sheet.update raises: nothing catches it in run_process
WriteScrapedFails ==
    /\ fetch.pc = "returned"
    /\ fetch.scraper = "product"
    /\ fetch.result # None
    /\ Proceed([fetch EXCEPT !.pc = "done", !.ended = "sheet_write"])

NextScrape ==
    \/ CheckScraperHeaders
    \/ ScraperHeadersFail
    \/ ReadUrlRow
    \/ ReadUrlRowFails
    \/ RangeExhausted
    \/ RequestSucceeds
    \/ ExtractionRaises
    \/ RequestFails
    \/ WriteScraped
    \/ WriteScrapedFails

SpecScrape == InitScrape /\ [][NextScrape]_vars

\* The retry loop by itself.  Every call of the loops returns or raises in
\* the end (the request has a timeout of 30 s, the waits are finite), so the
\* scraper keeps taking steps.
InitRetry == InitFetch(RetryPages)

SpecRetry == InitRetry /\ [][NextScrape]_vars /\ WF_vars(NextScrape)

\* The two row loops, each scheduled until it ends: a press of the run button
\* of the price tool with its worker threads, or one run_process of
\* AmazonScraper.
InitLoops == InitRuns \/ InitRetry

NextLoops ==
    \/ threads # <<>> /\ NextRuns
    \/ fetch.pc # "none" /\ NextScrape

SpecLoops ==
    /\ InitLoops
    /\ [][NextLoops]_vars
    /\ \A r \in Runs : WF_vars(threads # <<>> /\ Worker(r))
    /\ WF_vars(fetch.pc # "none" /\ NextScrape)

-----------------------------------------------------------------------------
(* Properties *)

Range(seq) == {seq[i] : i \in DOMAIN seq}

Succeeded == data.status = "success"

HasUsedMarker(text) ==
    \E i \in 1..(Len(text) - 1) : text[i] = "chuu" /\ text[i + 1] = "ko"

HasAmazonMarker(text) ==
    \E i \in 1..(Len(text) - 5) :
        <<text[i], text[i + 1], text[i + 2], text[i + 3], text[i + 4], text[i + 5]>>
            = <<"A", "m", "a", "z", "o", "n">>

KeyOf(o) == <<o.price, o.seller, o.shipper>>

\* the offers merged for the product: the buy-box when its price is an int,
\* and the parsed panel offers
MergedKeys ==
    {KeyOf(o) : o \in Range(side_offers)}
        \cup (IF data.buybox_info.price.k = "int"
              THEN {KeyOf(data.buybox_info)} ELSE {})

\* the buy-box-trust condition, read off the returned buy-box
TrustHolds ==
    /\ data.buybox_info.real_stock.n > 2
    /\ data.buybox_info.price.k = "int"
    /\ HasAmazonMarker(data.buybox_info.shipper.s)

\* C1: in every Success result no returned offer and no offer of the unique
\* aggregation set carries the Used marker in its condition, whether the New
\* filter was applied or failed and the unfiltered panel was parsed.
C1_NoUsedOffer ==
    Succeeded =>
        /\ \A o \in Range(data.offers) : ~HasUsedMarker(o.condition.s)
        /\ \A o \in Range(unique_offers) : ~HasUsedMarker(o.condition.s)
        /\ \A o \in Range(side_offers) : ~HasUsedMarker(o.condition.s)

\* the filter failed, the parsed page showed a used entry next to new ones
C1_Witness ==
    /\ Succeeded
    /\ filter = "failed"
    /\ \E e \in Range(page_source) : e.heading # None /\ HasUsedMarker(e.heading.s)
    /\ Len(data.offers) >= 2

\* C2: a resolved optimal_price of a Success result is the total price of an
\* offer of the unique offer set, and the optimal condition, shipper and seller
\* are the fields of that same offer.
C2_OptimalIsAnOffer ==
    (Succeeded /\ data.optimal_price.k = "int") =>
        \E o \in Range(unique_offers) :
            /\ KeyOf(o) \in MergedKeys
            /\ data.optimal_price.n = o.price.n + o.shipping_fee.n
            /\ data.optimal_price_condition = o.condition
            /\ data.optimal_price_shipper = o.shipper
            /\ data.optimal_price_seller = o.seller

\* resolved by the band rule to a price that is not the buy-box price
C2_Witness ==
    /\ Succeeded
    /\ ~TrustHolds
    /\ data.optimal_price.k = "int"
    /\ data.buybox_info.price.k = "int"
    /\ data.optimal_price.n # data.buybox_info.price.n

\* C3: when the buy-box has real_stock > 2, an int price and a platform-fulfilled
\* shipper, optimal_price is the buy-box price + shipping fee, the optimal
\* condition, shipper and seller are the buy-box's, and effective_sellers_count
\* is the size of the full unique offer set.
C3_BuyboxTrust ==
    (Succeeded /\ TrustHolds) =>
        /\ data.optimal_price.k = "int"
        /\ data.optimal_price.n
              = data.buybox_info.price.n + data.buybox_info.shipping_fee.n
        /\ data.optimal_price_condition = data.buybox_info.condition
        /\ data.optimal_price_shipper = data.buybox_info.shipper
        /\ data.optimal_price_seller = data.buybox_info.seller
        /\ data.effective_sellers_count.k = "int"
        /\ data.effective_sellers_count.n = Cardinality(MergedKeys)
        /\ Len(price_group) = Cardinality(MergedKeys)

\* trusted buy-box at 100 with panel offers at 115 and 120 under the default
\* multipliers: the band around 120 would have left the buy-box out
C3_Witness ==
    /\ Succeeded
    /\ TrustHolds
    /\ lower = 85
    /\ Len(unique_offers) = 3
    /\ \E o \in Range(unique_offers) : o.price.n + o.shipping_fee.n = 115
    /\ \E o \in Range(unique_offers) : o.price.n + o.shipping_fee.n = 120

\* the place (1-based) of price_group[i] when price_group is sorted by total
\* with a stable sort
SortedPlace(i) ==
    Cardinality({j \in 1..Len(price_group) :
        \/ price_group[j].price.n + price_group[j].shipping_fee.n
              < price_group[i].price.n + price_group[i].shipping_fee.n
        \/ /\ j <= i
           /\ price_group[j].price.n + price_group[j].shipping_fee.n
                 = price_group[i].price.n + price_group[i].shipping_fee.n})

\* C4: on the band path with n >= 3 eligible offers the optimal offer is the
\* one at 0-based index n/2 (n odd) or n/2 - 1 (n even) of the eligible set
\* sorted ascending by total price.
C4_Median ==
    (Succeeded /\ ~TrustHolds /\ Len(price_group) >= 3 /\ Len(unique_offers) >= 3) =>
        \E i \in 1..Len(price_group) :
            /\ SortedPlace(i) = ((Len(price_group) - 1) \div 2) + 1
            /\ data.optimal_price.k = "int"
            /\ data.optimal_price.n
                  = price_group[i].price.n + price_group[i].shipping_fee.n
            /\ data.optimal_price_condition = price_group[i].condition
            /\ data.optimal_price_shipper = price_group[i].shipper
            /\ data.optimal_price_seller = price_group[i].seller

\* four eligible offers whose two middle totals differ: the lower one is taken
C4_Witness ==
    /\ Succeeded
    /\ ~TrustHolds
    /\ Len(price_group) = 4
    /\ data.optimal_price.k = "int"
    /\ Cardinality({j \in 1..4 : price_group[j].price.n + price_group[j].shipping_fee.n
                                    > data.optimal_price.n}) = 2

\* C5: when the buy-box is not trusted and there are fewer than 3 unique
\* offers, no band is applied, optimal_price and its three companions stay
\* 'N/A', and effective_sellers_count is the number of unique offers.
C5_Sparse ==
    (Succeeded /\ ~TrustHolds /\ Cardinality(MergedKeys) < 3) =>
        /\ data.optimal_price = NA
        /\ data.optimal_price_condition = NA
        /\ data.optimal_price_shipper = NA
        /\ data.optimal_price_seller = NA
        /\ data.effective_sellers_count.k = "int"
        /\ data.effective_sellers_count.n = Cardinality(MergedKeys)
        /\ {KeyOf(o) : o \in Range(price_group)} = MergedKeys

\* two unique offers, 100 and 120, buy-box not trusted
C5_Witness ==
    /\ Succeeded
    /\ ~TrustHolds
    /\ Len(unique_offers) = 2
    /\ \E o \in Range(unique_offers) : o.price.n + o.shipping_fee.n = 100
    /\ \E o \in Range(unique_offers) : o.price.n + o.shipping_fee.n = 120
    /\ data.effective_sellers_count.n = 2

\* C6: in every Success result fba_count + fbm_count = total_offers,
\* total_offers is the size of the deduplicated offer set (the buy-box included
\* when its price is an int), and inventory_score = 2 * fba_count + fbm_count.
C6_Counts ==
    Succeeded =>
        /\ data.total_offers.k = "int" /\ data.fba_count.k = "int"
        /\ data.fbm_count.k = "int" /\ data.inventory_score.k = "int"
        /\ data.fba_count.n + data.fbm_count.n = data.total_offers.n
        /\ data.total_offers.n = Cardinality(MergedKeys)
        /\ data.fba_count.n
              = Cardinality({key \in MergedKeys : HasAmazonMarker(key[3].s)})
        /\ data.inventory_score.n = 2 * data.fba_count.n + data.fbm_count.n

\* both fulfilment types present and a duplicate key collapsed
C6_Witness ==
    /\ Succeeded
    /\ data.fba_count.n >= 1
    /\ data.fbm_count.n >= 1
    /\ data.buybox_info.price.k = "int"
    /\ Len(side_offers) + 1 > data.total_offers.n

\* the 15 fixed values of a Success row but the stock status, by column
FixedCells ==
    [i \in (1..15) \ {5} |->
        CASE i = 1 -> data.optimal_price
          [] i = 2 -> data.optimal_price_condition
          [] i = 3 -> data.optimal_price_shipper
          [] i = 4 -> data.optimal_price_seller
          [] i = 6 -> data.inventory_score
          [] i = 7 -> data.real_stock
          [] i = 8 -> data.effective_sellers_count
          [] i = 9 -> data.total_offers
          [] i = 10 -> data.fba_count
          [] i = 11 -> data.fbm_count
          [] i = 12 -> data.buybox_info.price
          [] i = 13 -> data.buybox_info.condition
          [] i = 14 -> data.buybox_info.shipper
          [] i = 15 -> data.buybox_info.seller]

\* get_product_data has returned without reaching the selection step
ReturnedEarly == pc = "flatten" /\ filter = "none"

\* C7: get_product_data never raises: when a fault stops the pipeline (the
\* primary or the secondary page fails) the worker still receives a result, its
\* status is error, every value field and every buy-box field of it holds the
\* error text and its offer list is empty; no extracted buy-box value is in it.
C7_FaultGivesErrorResult ==
    /\ pc \in {"flatten", "write", "written"} => data.status \in {"success", "error"}
    /\ ReturnedEarly => data.status = "error"
    /\ data.status = "error" =>
          /\ \A f \in DOMAIN data \ {"status", "offers", "buybox_info"} : data[f] = ERR
          /\ \A f \in DOMAIN data.buybox_info : data.buybox_info[f] = ERR
          /\ data.offers = <<>>
          /\ {"real_stock", "total_offers", "fba_count", "fbm_count",
              "inventory_score", "effective_sellers_count", "optimal_price",
              "optimal_price_condition", "optimal_price_shipper",
              "optimal_price_seller", "buybox_info", "offers"} \subseteq DOMAIN data

\* the secondary page failed after a buy-box with a price had been parsed
C7_Witness ==
    /\ pc = "flatten"
    /\ data.status = "error"
    /\ buybox_data.price.k = "int"
    /\ buybox_data.real_stock.n > 2

\* C8 as stated: the row written for an Error result holds the error text in
\* all 65 columns of the success schema.
C8_ErrorRowFillsSchema ==
    (pc = "written" /\ data.status = "error") =>
        /\ Len(row) = 15 + 10 * 5
        /\ \A i \in 1..(15 + 10 * 5) : row[i] = ERR

\* C8 amended: the row written for an Error result holds the error text in the
\* 15 fixed columns and empty cells in the 50 offer columns.
C8_ErrorRow ==
    (pc = "written" /\ data.status = "error") =>
        /\ Len(row) = 15 + 10 * 5
        /\ \A i \in 1..15 : row[i] = ERR
        /\ \A i \in 16..(15 + 10 * 5) : row[i] = EMPTY

\* an Error row has been written after the primary page failed
C8_Witness ==
    /\ pc = "written"
    /\ data.status = "error"
    /\ buybox_data = Unset

\* the number of offers a Success row shows
Shown == IF Len(data.offers) < 10 THEN Len(data.offers) ELSE 10

\* C9: a written Success row holds the 15 fixed values, then the first
\* min(|offers|, 10) offers as (price, shipping fee, condition, shipper, seller),
\* and every further cell up to column 65 is empty, whatever the row held before.
C9_SuccessRow ==
    (pc = "written" /\ Succeeded) =>
        /\ Len(row) = 15 + 10 * 5
        /\ \A i \in (1..15) \ {5} : row[i] = FixedCells[i]
        /\ row[5] \in {SUFFICIENT, INSUFFICIENT}
        /\ \A j \in 1..Shown :
              /\ row[15 + 5 * (j - 1) + 1] = data.offers[j].price
              /\ row[15 + 5 * (j - 1) + 2] = data.offers[j].shipping_fee
              /\ row[15 + 5 * (j - 1) + 3] = data.offers[j].condition
              /\ row[15 + 5 * (j - 1) + 4] = data.offers[j].shipper
              /\ row[15 + 5 * (j - 1) + 5] = data.offers[j].seller
        /\ \A i \in (15 + 5 * Shown + 1)..(15 + 10 * 5) : row[i] = EMPTY

\* a Success row with more than 10 offers to show has been written
C9_Witness ==
    /\ pc = "written"
    /\ Succeeded
    /\ Len(data.offers) > 10

\* C10: the stock status written for a Success product is sufficient exactly
\* when (real_stock > 2 and the buy-box shipper is platform-fulfilled) or
\* inventory_score >= 4, and insufficient otherwise; the first signal does not
\* need a parsed buy-box price.
C10_StockStatus ==
    (pc = "written" /\ Succeeded) =>
        IF \/ /\ data.real_stock.n > 2
              /\ HasAmazonMarker(data.buybox_info.shipper.s)
           \/ data.inventory_score.n >= 4
        THEN row[5] = SUFFICIENT
        ELSE row[5] = INSUFFICIENT

\* sufficient by the first signal alone, the buy-box price not parsed
C10_Witness ==
    /\ pc = "written"
    /\ Succeeded
    /\ data.buybox_info.price.k # "int"
    /\ data.real_stock.n > 2
    /\ HasAmazonMarker(data.buybox_info.shipper.s)
    /\ data.inventory_score.n < 4
    /\ row[5] = SUFFICIENT

TotalOf(o) == o.price.n + o.shipping_fee.n

\* get_product_data has returned and its inputs are still at hand
Returned == pc \in {"flatten", "write", "written"}

\* all_offers as get_product_data merges it: the buy-box when its price is an
\* int, then the panel offers in page order
Merged ==
    (IF buybox_data.price.k = "int" THEN <<buybox_data>> ELSE <<>>) \o side_offers

\* C11: deduplication is idempotent: applying the (price, seller, shipper)
\* first-seen deduplication to a deduplicated list returns that list, in the
\* same order, for every merged offer list.
C11_DedupIdempotent ==
    /\ Dedup(Dedup(Merged)) = Dedup(Merged)
    /\ Dedup(unique_offers) = unique_offers

\* a merged list of which at least two offers were dropped and two kept
C11_Witness ==
    /\ Returned /\ Succeeded
    /\ Len(Merged) >= Len(unique_offers) + 2
    /\ Len(unique_offers) >= 2
    /\ Dedup(Merged) = unique_offers

\* the place of the offer with key as o's in the unique offers
PlaceInUnique(o) ==
    CHOOSE i \in 1..Len(unique_offers) : KeyOf(unique_offers[i]) = KeyOf(o)

C13_SessionClosed ==
    \A r \in DOMAIN threads :
        /\ threads[r].pc \in {"enable", "done"} => threads[r].driver # "open"
        /\ threads[r].driver = "open" =>
              threads[r].pc \in {"read", "call", "resolving", "clear", "write",
                                 "finally"}
        /\ threads[r].users \subseteq {r}
        /\ threads[r].users # {} => threads[r].driver # "none"

\* a run that navigated, then met an exception of a sheet update, has closed
\* its session
C13_Witness ==
    \E r \in DOMAIN threads :
        /\ threads[r].pc = "enable"
        /\ threads[r].ended = "sheet_write"
        /\ threads[r].driver = "closed"
        /\ threads[r].users = {r}

\* C14: within a run the only row navigated for and not yet written is the
\* current one, so get_product_data has returned and the row is written before
\* the next row's navigation begins; at most one run holds an open session, and
\* the run button is disabled while a session is open.
C14_OneAtATime ==
    /\ \A r \in DOMAIN threads :
          /\ threads[r].written \subseteq threads[r].started
          /\ \A q \in threads[r].started : q <= threads[r].current_row
          /\ \A q \in threads[r].started \ threads[r].written :
                /\ q = threads[r].current_row
                /\ threads[r].pc \in {"resolving", "clear", "write", "finally",
                                      "enable"}
          /\ threads[r].pc = "call" => threads[r].started = threads[r].written
    /\ Cardinality({r \in DOMAIN threads : threads[r].driver = "open"}) <= 1
    /\ (\E r \in DOMAIN threads : threads[r].driver = "open") =>
          run_button = "disabled"
    /\ Cardinality({r \in DOMAIN threads :
                       threads[r].pc \notin {"idle", "done"}}) <= 1

\* a second run navigates for its second row after the first run has closed
\* its session
C14_Witness ==
    \E r, q \in DOMAIN threads :
        /\ threads[q].pc = "done" /\ threads[q].driver = "closed"
        /\ threads[r].pc = "resolving"
        /\ threads[r].written # {}
        /\ run_button = "disabled"

\* the third smallest total price of the unique offers
ThirdTotal ==
    CHOOSE t \in {TotalOf(o) : o \in Range(unique_offers)} :
        /\ Cardinality({i \in 1..Len(unique_offers) :
                           TotalOf(unique_offers[i]) < t}) <= 2
        /\ Cardinality({i \in 1..Len(unique_offers) :
                           TotalOf(unique_offers[i]) <= t}) >= 3

\* ref * multiplier <= t and t <= ref * multiplier, the product being the
\* double Python computes
AtLeastProduct(t, ref, pct) ==
    ref * pct < t * 100 \/ (ref * pct = t * 100 /\ FloatErr(ref, pct) <= 0)

AtMostProduct(t, ref, pct) ==
    t * 100 < ref * pct \/ (ref * pct = t * 100 /\ FloatErr(ref, pct) >= 0)

OnBandPath == Returned /\ Succeeded /\ ~TrustHolds /\ Len(unique_offers) >= 3

\* the keys of the unique offers inside the band around the third total
InBandKeys ==
    {KeyOf(o) : o \in {x \in Range(unique_offers) :
        /\ AtLeastProduct(TotalOf(x), ThirdTotal, lower)
        /\ AtMostProduct(TotalOf(x), ThirdTotal, upper)}}

\* C15: when the buy-box is not trusted and there are at least 3 unique
\* offers, the reference is the total of the third cheapest unique offer, the
\* eligible set is exactly the offers whose total t satisfies
\* reference * lower <= t <= reference * upper, both bounds included and both
\* products computed in floating point, and effective_sellers_count is the
\* size of that set.
C15_Band ==
    OnBandPath =>
        /\ {KeyOf(o) : o \in Range(price_group)} = InBandKeys
        /\ Len(price_group) = Cardinality(InBandKeys)
        /\ data.effective_sellers_count.k = "int"
        /\ data.effective_sellers_count.n = Cardinality(InBandKeys)

\* reference 100 with the multipliers 0.80 / 1.20: the offer at 120, on the
\* upper bound, is eligible
C15_Witness ==
    /\ OnBandPath
    /\ ThirdTotal = 100 /\ upper = 120
    /\ \E o \in Range(price_group) : TotalOf(o) = 120

\* C16: on the band path with at least 3 unique offers and fewer than 3 of
\* them inside the band, optimal_price and its companions stay 'N/A',
\* effective_sellers_count is the in-band count, and the display list is made
\* from the in-band set, not from the full unique set.
C16_ThinBand ==
    (OnBandPath /\ Cardinality(InBandKeys) < 3) =>
        /\ data.optimal_price = NA
        /\ data.optimal_price_condition = NA
        /\ data.optimal_price_shipper = NA
        /\ data.optimal_price_seller = NA
        /\ data.effective_sellers_count.k = "int"
        /\ data.effective_sellers_count.n = Cardinality(InBandKeys)
        /\ {KeyOf(o) : o \in Range(data.offers)}
              = InBandKeys \ {KeyOf(data.buybox_info)}
        /\ Len(data.offers) = Cardinality(InBandKeys \ {KeyOf(data.buybox_info)})

\* three panel offers of which two are in the band: these two are shown, the
\* third is not, and the buy-box has no price that could have matched it
C16_Witness ==
    /\ OnBandPath
    /\ data.buybox_info.price.k # "int"
    /\ Len(unique_offers) = 3
    /\ Cardinality(InBandKeys) = 2
    /\ Len(data.offers) = 2
    /\ data.optimal_price = NA

\* C17: the 'offers' list of a Success result is the eligible set without
\* every offer that has the buy-box key, sorted ascending by total price; no
\* offer in it has the buy-box key and its keys are pairwise distinct.
C17_DisplayOffers ==
    (Returned /\ Succeeded) =>
        /\ Range(data.offers)
              = {o \in Range(price_group) : KeyOf(o) # KeyOf(data.buybox_info)}
        /\ \A i, j \in 1..Len(data.offers) :
              /\ i < j => TotalOf(data.offers[i]) <= TotalOf(data.offers[j])
              /\ i # j => KeyOf(data.offers[i]) # KeyOf(data.offers[j])
        /\ \A o \in Range(data.offers) : KeyOf(o) # KeyOf(data.buybox_info)

\* the eligible set holds the buy-box and, in an order that is not ascending,
\* two more offers
C17_Witness ==
    /\ Returned /\ Succeeded
    /\ \E o \in Range(price_group) : KeyOf(o) = KeyOf(data.buybox_info)
    /\ Len(data.offers) >= 2
    /\ \E i, j \in 1..Len(price_group) :
          i < j /\ TotalOf(price_group[i]) > TotalOf(price_group[j])

\* the first place of key in the merged list
FirstPlace(key) ==
    CHOOSE i \in 1..Len(Merged) :
        /\ KeyOf(Merged[i]) = key
        /\ \A j \in 1..(i - 1) : KeyOf(Merged[j]) # key

\* C18: the unique offer set contains the buy-box offer exactly when the
\* buy-box price is an int; it has one offer per (price, seller, shipper) key
\* of the merged list, the first seen one (buy-box before panel offers, panel
\* offers in page order), in first-seen order; offers that differ in shipping
\* fee or condition only are collapsed into the first.
C18_UniqueOffers ==
    (Returned /\ Succeeded) =>
        /\ (\E i \in 1..Len(unique_offers) : unique_offers[i] = buybox_data)
              <=> buybox_data.price.k = "int"
        /\ \A i, j \in 1..Len(unique_offers) :
              i # j => KeyOf(unique_offers[i]) # KeyOf(unique_offers[j])
        /\ {KeyOf(o) : o \in Range(unique_offers)} = {KeyOf(o) : o \in Range(Merged)}
        /\ \A i \in 1..Len(unique_offers) :
              unique_offers[i] = Merged[FirstPlace(KeyOf(unique_offers[i]))]
        /\ \A i, j \in 1..Len(unique_offers) :
              i < j => FirstPlace(KeyOf(unique_offers[i]))
                          < FirstPlace(KeyOf(unique_offers[j]))

\* the buy-box is in the set, and of two panel offers with one key and
\* different shipping fees the first is in the set and the second is not
C18_Witness ==
    /\ Returned /\ Succeeded
    /\ buybox_data.price.k = "int"
    /\ \E i, j \in 1..Len(side_offers) :
          /\ i < j
          /\ KeyOf(side_offers[i]) = KeyOf(side_offers[j])
          /\ side_offers[i].shipping_fee # side_offers[j].shipping_fee
          /\ side_offers[i] \in Range(unique_offers)
          /\ side_offers[j] \notin Range(unique_offers)

\* C19: the steps of a product come in the order primary page, buy-box parse,
\* secondary page, New filter attempt, panel parse, selection: the secondary
\* page is navigated to only with the buy-box parsed and no fault caught, the
\* filter is attempted before the panel is parsed, a Success result comes
\* after both parses, and after a failure of the primary page nothing of the
\* secondary page is touched.
C19_StepOrder ==
    /\ pc \in {"side", "side_wait", "filter", "parse", "select"} =>
          buybox_data # Unset /\ fault = "none" /\ data = NoData
    /\ pc \in {"row", "main_wait"} =>
          buybox_data = Unset /\ filter = "none" /\ side_offers = <<>>
    /\ pc \in {"side", "side_wait", "filter"} =>
          filter = "none" /\ page_source = <<>> /\ side_offers = <<>>
    /\ pc = "parse" =>
          filter # "none" /\ page_source = <<>> /\ side_offers = <<>>
    /\ pc \in {"row", "main_wait", "side", "side_wait", "filter", "parse", "select"} =>
          unique_offers = <<>> /\ price_group = <<>>
    /\ Succeeded => buybox_data # Unset /\ filter \in {"applied", "failed"}
    /\ (fault # "none" /\ buybox_data = Unset) =>
          filter = "none" /\ page_source = <<>> /\ side_offers = <<>>
             /\ data.status = "error"

\* the wait for the primary page's container has timed out and the Error
\* result is about to be flattened
C19_Witness ==
    /\ pc = "flatten"
    /\ fault = "container_wait"
    /\ buybox_data = Unset
    /\ data.status = "error"

-----------------------------------------------------------------------------
(* The parsers: C21 to C23, over SpecParse *)

\* the buy-box of main_soup has been parsed
BuyboxParsed == pc \in {"side_page", "select", "flatten", "write", "written"}

\* the panel of page_source has been parsed
PanelParsed == pc \in {"select", "flatten", "write", "written"}

HasDigit(t) == \E i \in 1..Len(t) : t[i] \in Digits

\* C21 as stated: whatever the price node of the primary page (absent, with
\* digits, without digits), the buy-box price is an int or 'N/A', and the
\* condition is New if and only if the price is an int.
C21_PriceIntOrNA ==
    BuyboxParsed =>
        /\ IsInt(buybox_data.price) \/ buybox_data.price = NA
        /\ buybox_data.condition = S(NewText) <=> IsInt(buybox_data.price)

\* the number the text ends with: the digits and commas around its last digit,
\* commas removed
LastNumber(t) ==
    LET j == CHOOSE x \in 1..Len(t) :
                 t[x] \in Digits /\ \A y \in (x + 1)..Len(t) : t[y] \notin Digits
        from == {x \in 1..j : \A m \in x..j : t[m] \in PriceChars}
        to   == {x \in j..Len(t) : \A m \in j..x : t[m] \in PriceChars}
        i == CHOOSE x \in from : \A y \in from : x <= y
        e == CHOOSE x \in to : \A y \in to : y <= x
    IN  ParseInt(RemoveCommas(SubSeq(t, i, e)))

\* C22 as stated: _clean_price gives the int of the last run of digit groups
\* whenever the text holds a digit, and None exactly when the text is empty,
\* absent or without a digit; a panel entry whose price is None is not added.
C22_CleanPrice ==
    /\ (BuyboxParsed /\ main_soup.price # None) =>
          LET t == main_soup.price.s
          IN  /\ HasDigit(t) => buybox_data.price = I(LastNumber(t))
              /\ buybox_data.price = None <=> ~HasDigit(t)
    /\ PanelParsed =>
          /\ \A i \in 1..Len(side_offers) : IsInt(side_offers[i].price)
          /\ \A i \in 1..Len(page_source) :
                LET e == page_source[i]
                IN  (/\ e.heading # None
                     /\ ~Contains(UsedMarker, NormalizeSpace(e.heading.s))
                     /\ e.price # None
                     /\ HasDigit(e.price.s)) =>
                       \E k \in 1..Len(side_offers) :
                           side_offers[k].price = I(LastNumber(e.price.s))

\* t[i..e+1] is a remaining phrase: the two characters of "remaining", the
\* digits t[i+2..e], the counter character
RemainingPhrase(t, i, e) ==
    /\ i + 2 <= e /\ e + 1 <= Len(t)
    /\ t[i] = "noko" /\ t[i + 1] = "ri"
    /\ \A m \in (i + 2)..e : t[m] \in Digits
    /\ t[e + 1] = "ten"

\* C23: real_stock of the buy-box is 30 when the availability text contains
\* the in-stock phrase, also when a remaining phrase comes with it; the N of
\* its first "N remaining" phrase when it contains remaining phrases only; 0
\* when the availability node is absent or its text matches neither; it is a
\* non-negative int, and the Success result carries it.
C23_RealStock ==
    BuyboxParsed =>
        LET a == main_soup.availability
            real_stock == buybox_data.real_stock
        IN  /\ IsInt(real_stock) /\ real_stock.n >= 0
            /\ a = None => real_stock.n = 0
            /\ a # None =>
                  LET t == a.s
                      phrases == {p \in (1..Len(t)) \X (1..Len(t)) :
                                     RemainingPhrase(t, p[1], p[2])}
                  IN  /\ Contains(InStockMarker, t) => real_stock.n = 30
                      /\ (~Contains(InStockMarker, t) /\ phrases # {}) =>
                            \E p \in phrases :
                                /\ \A q \in phrases : p[1] <= q[1]
                                /\ real_stock.n =
                                      ParseInt(SubSeq(t, p[1] + 2, p[2]))
                      /\ (~Contains(InStockMarker, t) /\ phrases = {}) =>
                            real_stock.n = 0
            /\ Succeeded =>
                  data.real_stock = real_stock /\ data.real_stock.n >= 0

\* a Success result for a page whose availability text holds a remaining
\* phrase and the in-stock phrase: real_stock is 30
C23_Witness ==
    /\ pc = "flatten"
    /\ Succeeded
    /\ main_soup.availability # None
    /\ Contains(InStockMarker, main_soup.availability.s)
    /\ \E i, e \in 1..Len(main_soup.availability.s) :
          RemainingPhrase(main_soup.availability.s, i, e)
    /\ data.real_stock = I(30)

-----------------------------------------------------------------------------
(* The result's counts and the band: C24 to C26, over SpecSelect *)

\* the buy-box key is the key of an offer of the eligible set
BuyboxEligible == \E o \in Range(price_group) : KeyOf(o) = KeyOf(buybox_data)

\* C24: in every Success result len(offers) <= effective_sellers_count <=
\* total_offers, and len(offers) is effective_sellers_count - 1 exactly when
\* the buy-box offer is in the eligible set; otherwise the two are equal.
C24_OfferCounts ==
    (Returned /\ Succeeded) =>
        /\ IsInt(data.effective_sellers_count) /\ IsInt(data.total_offers)
        /\ Len(data.offers) <= data.effective_sellers_count.n
        /\ data.effective_sellers_count.n <= data.total_offers.n
        /\ data.effective_sellers_count.n = Len(price_group)
        /\ BuyboxEligible <=>
              Len(data.offers) = data.effective_sellers_count.n - 1
        /\ ~BuyboxEligible <=>
              Len(data.offers) = data.effective_sellers_count.n

\* a trusted buy-box among three eligible offers: two offers are shown
C24_Witness ==
    /\ Returned /\ Succeeded
    /\ TrustHolds
    /\ BuyboxEligible
    /\ data.effective_sellers_count = I(3)
    /\ data.total_offers = I(3)
    /\ Len(data.offers) = 2

\* C25: whenever the buy-box-trust rule fires (real stock above 2, int price,
\* platform-fulfilled), the optimal price written is the buy-box total and
\* the stock status written with it is "sufficient", never "insufficient".
\* Checked over SpecParse, where the row is written after the selection.
C25_TrustedIsSufficient ==
    (pc = "written" /\ Succeeded /\ TrustHolds) =>
        /\ data.optimal_price =
              I(data.buybox_info.price.n + data.buybox_info.shipping_fee.n)
        /\ row[1] = data.optimal_price
        /\ row[5] = SUFFICIENT
        /\ row[5] # INSUFFICIENT

\* a trusted buy-box that is the only offer: the inventory score is 2 and the
\* row says sufficient
C25_Witness ==
    /\ pc = "written"
    /\ Succeeded
    /\ TrustHolds
    /\ data.total_offers = I(1)
    /\ data.inventory_score = I(2)
    /\ row[1] = I(100)
    /\ row[5] = SUFFICIENT

\* C26: an optimal price resolved by the band rule lies inside the band,
\* reference * lower <= optimal_price <= reference * upper, the reference
\* being the third cheapest total; and with lower <= 1 <= upper the reference
\* offer is in the eligible set, so that effective_sellers_count >= 1 whenever
\* there are at least 3 unique offers.
C26_OptimalInBand ==
    /\ (OnBandPath /\ IsInt(data.optimal_price)) =>
          /\ AtLeastProduct(data.optimal_price.n, ThirdTotal, lower)
          /\ AtMostProduct(data.optimal_price.n, ThirdTotal, upper)
    /\ (OnBandPath /\ lower <= 100 /\ 100 <= upper) =>
          \A o \in Range(unique_offers) :
              TotalOf(o) = ThirdTotal =>
                 \E g \in Range(price_group) : KeyOf(g) = KeyOf(o)
    /\ (Returned /\ Succeeded /\ Len(unique_offers) >= 3
          /\ lower <= 100 /\ 100 <= upper) =>
          /\ IsInt(data.effective_sellers_count)
          /\ data.effective_sellers_count.n >= 1

\* three eligible offers whose median is not the reference offer
C26_Witness ==
    /\ OnBandPath
    /\ lower <= 100 /\ 100 <= upper
    /\ IsInt(data.optimal_price)
    /\ data.optimal_price.n # ThirdTotal
    /\ data.effective_sellers_count = I(3)

-----------------------------------------------------------------------------
(* The requests scrapers: C29 over SpecRetry, C30 over SpecScrape *)

\* C29, the counts: at most max_retries + 1 requests per URL; the wait after
\* failed attempt number a is retry_delay * 2^a and there is none after the
\* last attempt; a result that comes from a response is the parsed data of
\* the first request that was answered; None is returned once every attempt
\* has failed.
C29_Counts ==
    /\ fetch.requests <= fetch.max_retries + 1
    /\ \A i \in 1..Len(fetch.slept) :
          fetch.slept[i] = fetch.retry_delay * Pow2(i - 1)
    /\ Len(fetch.slept) <= (IF fetch.max_retries >= 0 THEN fetch.max_retries ELSE 0)
    /\ fetch.pc = "attempt" =>
          fetch.requests = fetch.attempt /\ Len(fetch.slept) = fetch.attempt
    /\ (fetch.pc = "returned" /\ fetch.response # None) =>
          /\ fetch.result # None
          /\ fetch.result = (IF fetch.scraper = "image"
                             THEN ImageUrls(fetch.response)
                             ELSE ProductData(fetch.response))
          /\ fetch.requests = Len(fetch.slept) + 1
    /\ (fetch.pc = "returned" /\ fetch.response = None) =>
          /\ fetch.result = None
          /\ fetch.requests = (IF fetch.max_retries >= 0
                               THEN fetch.max_retries + 1 ELSE 0)
          /\ Len(fetch.slept) = (IF fetch.max_retries >= 0
                                 THEN fetch.max_retries ELSE 0)

\* C29, no further request: once the loop has returned, no request is issued
\* for this URL
C29_NoFurtherRequest ==
    fetch.pc \in {"returned", "done"} =>
        fetch'.requests = fetch.requests /\ fetch'.slept = fetch.slept

\* C29: the retry loop of _scrape_product_data and of _scrape_image_urls
\* issues at most max_retries + 1 requests per URL, waits
\* retry_delay * 2^attempt after failed attempt number attempt and not after
\* the last one, returns the parsed data at the first successful attempt
\* without further requests, returns None once all attempts have failed, and
\* always terminates.
C29_RetryLoop ==
    /\ []C29_Counts
    /\ [][C29_NoFurtherRequest]_vars
    /\ (fetch.pc = "attempt") ~> (fetch.pc \in {"returned", "done"})

\* three requests have failed, with waits of 5 and 10 between them, and None
\* is returned
C29_Witness ==
    /\ fetch.pc = "returned"
    /\ fetch.max_retries = 2
    /\ fetch.requests = 3
    /\ fetch.slept = <<5, 10>>
    /\ fetch.response = None
    /\ fetch.result = None

\* the id of a URL: the characters between its first image marker that is
\* followed by id characters and a dot, and that dot
IdSpans(t) ==
    {p \in (1..Len(t)) \X (1..Len(t)) :
        /\ p[1] + 3 <= p[2] /\ p[2] + 1 <= Len(t)
        /\ t[p[1]] = "/" /\ t[p[1] + 1] = "I" /\ t[p[1] + 2] = "/"
        /\ \A m \in (p[1] + 3)..p[2] : t[m] \in IdChars
        /\ t[p[2] + 1] = "."}

HasId(url) == IdSpans(url.s) # {}

IdOf(url) ==
    LET p == CHOOSE x \in IdSpans(url.s) : \A y \in IdSpans(url.s) : x[1] <= y[1]
    IN  SubSeq(url.s, p[1] + 3, p[2])

\* the places of a candidate list that show an id for the first time
FirstSeen(cand) ==
    {i \in 1..Len(cand) :
        /\ HasId(cand[i])
        /\ \A j \in 1..(i - 1) : HasId(cand[j]) => IdOf(cand[j]) # IdOf(cand[i])}

\* urls is the candidates at the first MAX_IMAGES places of FirstSeen, in order
IsFirstSeenOf(urls, cand) ==
    LET places == FirstSeen(cand)
        n == IF Cardinality(places) < MAX_IMAGES
             THEN Cardinality(places) ELSE MAX_IMAGES
    IN  /\ Len(urls) = n
        /\ \A k \in 1..n :
              \E i \in places :
                  /\ Cardinality({j \in places : j < i}) = k - 1
                  /\ urls[k] = cand[i]

\* the candidates of the two strategies for a response
ScriptCandidates(html) ==
    IF html.script = None THEN <<>>
    ELSE [i \in 1..Len(html.script.s) |-> S(DecodeEscapes(html.script.s[i].s))]

ThumbCandidates(html) ==
    IF html.thumbs = None THEN <<>>
    ELSE LET with_src == SelectSeq(html.thumbs.s, LAMBDA src : src # None)
         IN  [i \in 1..Len(with_src) |-> HiResUrl(with_src[i])]

ImagesReturned ==
    fetch.scraper = "image" /\ fetch.pc = "returned" /\ fetch.response # None

\* C30: the image scraper returns at most 10 URLs, their image ids pairwise
\* distinct, in first-seen order; the thumbnails are used only when the script
\* data gave no URL, so the result is drawn from one strategy only.
C30_ImageUrls ==
    ImagesReturned =>
        LET urls == fetch.result.s
            script == ScriptCandidates(fetch.response)
            thumbs == ThumbCandidates(fetch.response)
        IN  /\ fetch.result.k = "list"
            /\ Len(urls) <= 10
            /\ \A i \in 1..Len(urls) : HasId(urls[i])
            /\ \A i, j \in 1..Len(urls) :
                  i # j => IdOf(urls[i]) # IdOf(urls[j])
            /\ IF FirstSeen(script) # {}
               THEN IsFirstSeenOf(urls, script)
               ELSE IsFirstSeenOf(urls, thumbs)

\* the script data holds a URL without an id only, two thumbnails show the
\* same image: the one high-resolution URL of the thumbnails is returned
C30_Witness ==
    /\ ImagesReturned
    /\ fetch.response.script # None
    /\ Len(fetch.response.script.s) = 1
    /\ fetch.response.thumbs # None
    /\ Len(ThumbCandidates(fetch.response)) = 2
    /\ ThumbCandidates(fetch.response)[1] = ThumbCandidates(fetch.response)[2]
    /\ Len(fetch.result.s) = 1

-----------------------------------------------------------------------------
(* The row loop of run_in_thread: C28 over SpecWorker                       *)

\* the lines of the while loop of run_in_thread
LoopLines == {"read", "call", "resolving", "clear", "write"}

\* the step of thread r after an Error result: the range is cleared, the
\* error row is written and the next row is read with the session still open,
\* unless a sheet update raises
ErrorRowStep(r) ==
    LET t == threads[r]
        u == threads'[r]
    IN  (t.status = "error" /\ t.pc \in {"clear", "write"} /\ u # t) =>
           /\ t.driver = "open"
           /\ \/ /\ t.pc = "clear" /\ u.pc = "write"
                 /\ u.current_row = t.current_row
                 /\ u.driver = "open"
              \/ /\ t.pc = "write" /\ u.pc = "read"
                 /\ u.error_rows = t.error_rows \cup {t.current_row}
                 /\ u.written = t.written \cup {t.current_row}
                 /\ u.current_row = t.current_row + 1
                 /\ u.driver = "open"
              \/ /\ u.pc = "finally" /\ u.ended = "sheet_write"

\* the loop of thread r is left from the read (end of the sheet, 10 rows
\* without URLs, or the read raises) or from a sheet update that raises, and
\* never from the call of get_product_data
LoopLeftStep(r) ==
    LET t == threads[r]
        u == threads'[r]
    IN  (t.pc \in LoopLines /\ u.pc \notin LoopLines) =>
           /\ u.pc = "finally"
           /\ \/ t.pc = "read" /\ u.ended \in {"sheet_end", "invalid_rows", "sheet_read"}
              \/ t.pc \in {"clear", "write"} /\ u.ended = "sheet_write"

\* C28: an Error result for one product does not stop the run: the error row
\* is written for that product and the loop goes on to the next row with the
\* same browser session; the loop ends only by an exception of a sheet read
\* or write, or by an end condition (end of the sheet, 10 rows without URLs).
C28_ErrorDoesNotStop ==
    /\ [][\A r \in Runs : ErrorRowStep(r) /\ LoopLeftStep(r)]_vars
    /\ \A r \in Runs :
          (threads[r].pc = "clear" /\ threads[r].status = "error")
             ~> \/ /\ threads[r].pc = "read"
                   /\ (threads[r].current_row - 1) \in threads[r].error_rows
                   /\ threads[r].driver = "open"
                \/ threads[r].ended = "sheet_write"

\* a thread reads the row after a row it wrote the error row to, with its
\* session open
C28_Witness ==
    \E r \in Runs :
       /\ threads[r].pc = "read"
       /\ threads[r].status = "error"
       /\ (threads[r].current_row - 1) \in threads[r].error_rows
       /\ threads[r].current_row <= Len(sheet)
       /\ threads[r].driver = "open"
       /\ threads[r].ended = "none"

-----------------------------------------------------------------------------
(* The row loops of run_in_thread and of run_process: C27 over SpecLoops    *)

\* the locals of worker thread r, where there are worker threads
ThreadLocals(r) == IF r \in DOMAIN threads THEN threads[r] ELSE IdleThread

\* a run_process of AmazonScraper is under way or over
ProductRun == fetch.pc # "none" /\ fetch.scraper = "product"

\* the rows of the sheet that have valid URLs
UrlRows == { i \in 1..Len(sheet) : sheet[i] = "url" }

\* the number of rows of the kinds passed over directly before row k
ConsecutivePassed(k, passed) ==
    CHOOSE n \in 0..(k - 1) :
       /\ \A i \in (k - n)..(k - 1) : sheet[i] \in passed
       /\ n = k - 1 \/ sheet[k - n - 1] \notin passed

\* the state of a row loop that passes over the rows of some kinds: at the
\* read the counter is the number of such rows just before the current row and
\* is under the limit; a row that is processed is of another kind and the
\* counter is 0; the loop left by the counter has read exactly EMPTY_LIMIT
\* such rows in sequence, the loop left by the end of the sheet is one row
\* beyond it; only rows with valid URLs are written
LoopState(passed, current_row, count, written, reading, processing, ended) ==
    /\ reading =>
          /\ current_row <= Len(sheet) + 1
          /\ count = ConsecutivePassed(current_row, passed)
          /\ count < EMPTY_LIMIT
    /\ processing =>
          /\ current_row <= Len(sheet)
          /\ sheet[current_row] \notin passed
          /\ count = 0
    /\ ended \in {"invalid_rows", "empty_rows"} =>
          /\ current_row <= Len(sheet)
          /\ count = EMPTY_LIMIT
          /\ ConsecutivePassed(current_row + 1, passed) = EMPTY_LIMIT
    /\ ended = "sheet_end" => current_row = Len(sheet) + 1
    /\ written \subseteq UrlRows

\* the loop of run_in_thread passes over empty and invalid URLs
ThreadLoopState ==
    \A r \in Runs :
       LET t == ThreadLocals(r)
       IN  LoopState({"blank", "invalid"},
                     t.current_row, t.consecutive_empty_count, t.written,
                     t.pc = "read",
                     t.pc \in {"call", "resolving", "clear", "write"},
                     t.ended)

\* the loop of run_process passes over the rows of the kinds given
ProductLoopState(passed) ==
    ProductRun =>
       LoopState(passed,
                 fetch.current_row, fetch.consecutive_empty_count,
                 fetch.written,
                 fetch.pc = "read",
                 fetch.pc \in {"attempt", "returned"},
                 fetch.ended)

\* the current row changes by one step forward, at the end of an iteration
RowStep ==
    /\ \A r \in DOMAIN threads :
          (threads'[r].pc # "done"
             /\ threads'[r].current_row # threads[r].current_row) =>
             /\ threads'[r].current_row = threads[r].current_row + 1
             /\ threads[r].pc \in {"read", "write"}
             /\ threads'[r].pc = "read"
    /\ (ProductRun /\ fetch'.current_row # fetch.current_row) =>
          /\ fetch'.current_row = fetch.current_row + 1
          /\ fetch.pc \in {"read", "returned"}
          /\ fetch'.pc = "read"

\* every row loop that reads a row is left in the end
LoopsTerminate ==
    /\ \A r \in Runs :
          (ThreadLocals(r).pc = "read") ~> (ThreadLocals(r).pc \notin LoopLines)
    /\ (ProductRun /\ fetch.pc = "read") ~> (ProductRun /\ fetch.pc = "done")

\* C27 as stated: the row loop terminates; it stops as soon as 10 rows in
\* sequence have an empty or invalid URL, or when the read reports the end of
\* the sheet; a row with valid URLs resets the counter to 0; the current row
\* changes only by one step forward per iteration; rows passed over as empty
\* or invalid are never written.
C27_AsStated ==
    /\ [](ThreadLoopState /\ ProductLoopState({"blank", "invalid"}))
    /\ [][RowStep]_vars
    /\ LoopsTerminate

\* C27 amended: the same, where run_process of AmazonScraper counts and passes
\* over the rows with an empty URL only: there a row with other text is
\* attempted, resets the counter to 0 and is not written, as no page is got.
C27_RowLoop ==
    /\ [](ThreadLoopState /\ ProductLoopState({"blank"}))
    /\ [][RowStep]_vars
    /\ LoopsTerminate

\* a run_process has gone through rows with invalid URLs and stopped at the
\* end of the sheet, after it wrote a row
C27_Witness ==
    /\ ProductRun
    /\ fetch.ended = "sheet_end"
    /\ fetch.written # {}
    /\ sheet[Len(sheet)] = "invalid"
    /\ fetch.consecutive_empty_count = 0

====
